---------------------------- MODULE Spec2Model ----------------------------
(***************************************************************************)
(* Model of the logs-distributor core: the weighted load balancer, the     *)
(* health monitor that drives it, and the packet / result / retry pipeline *)
(* of the Distributor with its RetryHandler.                               *)
(*                                                                         *)
(* Weights are float64 in the source (0.4, 0.3, ...).  They are modelled   *)
(* as integers counting tenths, so MaxWeight = 1.0 is 10 and the sentinel  *)
(* "maxWeight = -1" of SelectAnalyzer is -10.                              *)
(***************************************************************************)
EXTENDS Integers, Sequences, FiniteSets, Bags, TLC

\* ------------------------------------------------------------ constants
MinWeight == 0
MaxWeight == 10
NumAnalyzers == 4
MaxRetries == 3
BaseRetryDelay == 2        \* config.BaseRetryDelay, in seconds
RetryBackoffFactor == 2

\* no analyzer selected (a nil *models.Analyzer)
Nil == 0

\* ------------------------------------------------------------ bounds
MaxTicks == 1         \* health ticks explored
MaxSelects == 10      \* direct SelectAnalyzer calls explored with the monitor running
MaxCycles == 2        \* weighted round-robin cycles counted
MaxIntWeight == 4     \* largest weight of the registries of SpecWRR
MaxPackets == 1       \* SubmitPacket calls explored (config: unbounded)
PacketChannelBuffer == 1   \* capacity of packetChannel (config: 2000)
ResultChannelBuffer == 1   \* capacity of resultChannel (config: 2000)
RetryChannelBuffer == 1    \* capacity of the retry channel (config: 1000)
PacketWorkers == 1         \* processPackets and processResults goroutines (config: 100)
MaxStrayTasks == 1         \* sendToAnalyzer goroutines holding a zero packet at a time
MaxMessagesPerPacket == 2  \* config.MaxMessagesPerPacket (config: 1000)
MaxLogMessageLength == 1   \* config.MaxLogMessageLength, in bytes (config: 10000)
MaxPacketSizeBytes == 1    \* config.MaxPacketSizeBytes (config: 1024 * 1024)
MaxSubmitCalls == 2        \* SubmitPacket calls explored by SpecSubmit
MaxRestored == 1           \* largest TotalProcessed of a recovered snapshot in SpecSubmit
maxDeadLetterEntries == 3  \* saveToDeadLetterFile's maxDeadLetterEntries (code: 10000)
MaxWriters == 2            \* goroutines that dead-letter packets at the same time
MaxPending == 2            \* pending packets of a saved DistributorState
MaxCount == 2              \* largest counter value of a saved DistributorState
MaxProcessed == 2          \* ProcessPacket calls explored by SpecStats
MaxStatsCalls == 1         \* GetStats calls explored by SpecStats
MaxSelectors == 1          \* goroutines calling SelectAnalyzer at the same time in SpecLock
MaxLockSelects == 2        \* SelectAnalyzer calls explored by SpecLock
MaxLockTicks == 2          \* health ticks explored by SpecLock
MaxFlowPackets == 2        \* packet ids of SpecFlow
MaxFlowSubmits == 1        \* SubmitPacket calls explored by SpecFlow
MaxSnapshots == 2          \* getState / SaveState calls explored by SpecSnap
MaxTrackCalls == 4         \* RetryHandler calls explored by SpecTrack

VARIABLES
    originalWeights,    \* lb.originalWeights: analyzer id -> weight (tenths)
    currentWeights,     \* lb.currentWeights
    isHealthy,          \* Analyzer.IsHealthy of the analyzers shared by monitor and balancer
    hcTodo,             \* analyzers the running health tick has not probed yet
    healthChanged,      \* checkAnalyzerHealth's healthChanged of the running tick
    hcNotify,           \* the tick finished with a change: onHealthChange is due
    lastSelected,       \* result of the latest SelectAnalyzer call
    lastSelectable,     \* that call found a healthy analyzer and a total weight other than 0
    lastInHealthy,      \* that call returned an analyzer it had read as healthy
    lastSmallest,       \* smallest id among the healthy analyzers of maximal weight in that call
    hcTicks,            \* health ticks started so far
    lbCalls,            \* SelectAnalyzer calls made so far (direct calls, capped)
    nSel,               \* SelectAnalyzer calls since construction / the last UpdateWeights
    selCount            \* per analyzer, how many of those calls selected it

VARIABLES
    isRunning,          \* d.isRunning
    ctxDone,            \* d.ctx is cancelled
    closed,             \* Stop closed d.packetChannel, d.resultChannel and d.retryChannel
    stopPc,             \* "idle", or "wait": a Stop call is in d.wg.Wait()
    panicked,           \* the panic that ended the process, or NoPanic
    packetChannel,      \* d.packetChannel
    resultChannel,      \* d.resultChannel
    retryChannel,       \* r.retryChannel, the channel NewRetryHandler was given
    packetMap,          \* r.packetMap: packet id -> packet
    timers,             \* bag of packets held by scheduleRetryWithCleanup goroutines
    tasks,              \* bag of running sendToAnalyzer goroutines
    saturated,          \* some send found its queue full and gave up (timeout or default)
    pw,                 \* processPackets goroutines
    rw,                 \* processResults goroutines
    pump,               \* the ProcessRetries goroutine
    ckpt,               \* the stateCheckpointer goroutine: "off", "run", "exit"
    hc,                 \* the healthChecker goroutine: "off", "run", "exit"
    snapshot,           \* content of the state file, NoSnapshot when absent
    deadLetter,         \* content of the dead-letter file
    totalPacketsReceived,
    submitting,         \* packets of the SubmitPacket calls that are inside the select
    submitBudget,       \* SubmitPacket calls still to be explored
    submitResult,       \* packet id -> what its SubmitPacket call returned
    attempts,           \* packet id -> number of sendToAnalyzer goroutines started for it
    term,               \* packet id -> its first terminal event
    anomaly,            \* packet id -> a second terminal event, or an attempt after one
    lastError,          \* packet id -> Error of the latest failure handled for it
    lastCall            \* outcome of the latest Start / Stop call

pipeVars == <<isRunning, ctxDone, closed, stopPc, panicked, packetChannel, resultChannel,
              retryChannel, packetMap, timers, tasks, saturated, pw, rw, pump, ckpt, hc, snapshot,
              deadLetter, totalPacketsReceived, submitting, submitBudget, submitResult,
              attempts, term, anomaly, lastError, lastCall>>

lbVars == <<originalWeights, currentWeights, isHealthy, hcTodo, healthChanged, hcNotify,
            lastSelected, lastSelectable, lastInHealthy, lastSmallest, hcTicks, lbCalls,
            nSel, selCount>>

\* the variables of the call-level specifications further down
VARIABLES
    subPacket,          \* packet of the latest SubmitPacket call of SpecSubmit
    subErr,             \* what that call returned
    subCalls,           \* SubmitPacket calls made so far
    okSubmits,          \* calls that returned nil since the counter was last restored
    restoredTotal       \* value recoverFromState last stored in the counter

submitVars == <<subPacket, subErr, subCalls, okSubmits, restoredTotal>>

VARIABLES
    dlFile,             \* the dead-letter file of SpecDL: absent, empty, an array, or garbled
    dlWriters,          \* the goroutines of SpecDL that dead-letter a packet, step by step
    dlRead,             \* what the latest GetDeadLetterPackets call answered
    dlNext,             \* packets that exhausted their retries so far
    dlDone              \* ids of the packets whose HandleFailedPacket call has returned

dlVars == <<dlFile, dlWriters, dlRead, dlNext, dlDone>>

VARIABLES
    psState,            \* the DistributorState handed to SaveState in SpecPersist
    psFile,             \* content of the state file of SpecPersist
    psRecovered         \* what the latest RecoverState call returned

persistVars == <<psState, psFile, psRecovered>>

VARIABLES
    dProcessed,         \* d.analyzers[id].ProcessedCount, the registry initializeAnalyzers built
    dErrors,            \* d.analyzers[id].ErrorCount
    dHealthy,           \* d.analyzers[id].IsHealthy
    lbProcessed,        \* ProcessedCount of the analyzers the balancer and the monitor share
    lbErrors,           \* ErrorCount of those analyzers
    outcomes,           \* per analyzer id, the ProcessPacket calls that succeeded and failed
    merged,             \* sum of the counters recoverFromState added
    stats,              \* what the latest GetStats call returned
    statsCalls          \* GetStats calls made so far

statsVars == <<dProcessed, dErrors, dHealthy, lbProcessed, lbErrors, outcomes, merged, stats,
               statsCalls>>

VARIABLES
    rtCall,             \* the latest HandleFailedPacket call of SpecRetry and what it scheduled
    rtSubmits           \* SubmitPacket calls made so far in SpecRetry

retryVars == <<rtCall, rtSubmits>>

VARIABLES
    lbMu,               \* lb.mu: "free", or the method that holds it
    selPc,              \* the SelectAnalyzer calls of SpecLock, loop by loop
    updPc,              \* the monitor's UpdateWeights call of SpecLock
    rejoined            \* analyzers that turned healthy and that no SelectAnalyzer call
                        \* has treated as healthy since

lockVars == <<lbMu, selPc, updPc, rejoined>>

VARIABLES
    stranded,           \* ids of the recovered packets recoverFromState could not enqueue
    flowSubmits         \* SubmitPacket calls made so far in SpecFlow

flowVars == <<stranded, flowSubmits>>

VARIABLES
    snapPc,             \* the getState / SaveState call of SpecSnap, read by read
    snapDraft,          \* what that call has read so far
    snapSeen,           \* the states the distributor went through during that call
    snapCalls,          \* getState calls made so far
    subPc               \* packet id -> how far its SubmitPacket call of SpecSnap has got

snapVars == <<snapPc, snapDraft, snapSeen, snapCalls, subPc>>

VARIABLES
    trHeap,             \* the backing arrays of the Messages slices of SpecTrack
    trSlice,            \* the slice the latest GetTrackedPackets call returned
    trPrev,             \* r.packetMap and the arrays before the latest call
    trOp,               \* the latest call and its argument
    trCalls             \* calls made so far in SpecTrack

trackVars == <<trHeap, trSlice, trPrev, trOp, trCalls>>

\* the variables of the specifications added last
laterVars == <<retryVars, lockVars, flowVars, snapVars, trackVars>>

auxVars == <<submitVars, dlVars, persistVars, statsVars, laterVars>>

vars == <<lbVars, pipeVars, auxVars>>

\* ------------------------------------------------------------ load balancer
Analyzers == DOMAIN originalWeights

RECURSIVE SumOver(_, _)
SumOver(f, S) == IF S = {} THEN 0
                 ELSE LET a == CHOOSE x \in S : TRUE IN f[a] + SumOver(f, S \ {a})

\* first loop of SelectAnalyzer: the healthy analyzers and their total weight
HealthyAnalyzers == {a \in Analyzers : isHealthy[a]}
TotalWeight(H) == SumOver(originalWeights, H)

\* second loop: every healthy analyzer's current weight grows by its original weight
Bumped(H) == [a \in Analyzers |->
                IF a \in H THEN currentWeights[a] + originalWeights[a]
                ELSE currentWeights[a]]

\* third loop: "var maxWeight float64 = -1" and "if currentWeight > maxWeight".
\* The loop runs over a slice filled in Go map order, which is random, so the
\* analyzer kept is whichever analyzer of maximal weight comes first: any of them.
InitialMaxWeight == -10

\* a third loop that keeps the first healthy analyzer it meets
MaxCandidatesAnyHealthy(cw, H) == {a \in H : cw[a] > InitialMaxWeight}

MaxCandidates(cw, H) ==
    {a \in H : cw[a] > InitialMaxWeight /\ \A b \in H : cw[b] <= cw[a]}

Smallest(S) == CHOOSE a \in S : \A b \in S : a <= b

\* SelectAnalyzer returning sel (Nil when it returns nil)
SelectAnalyzer(sel) ==
    LET H == HealthyAnalyzers
        W == TotalWeight(H)
        cw == Bumped(H)
        C == MaxCandidates(cw, H)
    IN  /\ lastSelected' = sel
        /\ lastSelectable' = (H # {} /\ W # 0)
        /\ lastInHealthy' = (sel \in H)
        /\ IF H = {} \/ W = 0
           THEN /\ sel = Nil
                /\ lastSmallest' = Nil
                /\ currentWeights' = currentWeights
           ELSE /\ lastSmallest' = Smallest({a \in H : \A b \in H : cw[b] <= cw[a]})
                /\ IF C = {}
                   THEN sel = Nil /\ currentWeights' = cw
                   ELSE sel \in C /\ currentWeights' = [cw EXCEPT ![sel] = @ - W]

\* UpdateWeights
ResetWeights == [a \in Analyzers |->
                    IF isHealthy[a] THEN originalWeights[a] ELSE currentWeights[a]]


\* ------------------------------------------------------------ health monitor
\* one iteration of checkAnalyzerHealth's loop: analyzer a is probed and gets
\* health v (rand.Float64() > HealthFailureRate).  A tick probes every analyzer
\* once, in map order; SelectAnalyzer may run between two probes.
ProbeAnalyzer(a, v) ==
    LET todo == IF hcTodo = {} THEN Analyzers ELSE hcTodo
        changed == (IF hcTodo = {} THEN FALSE ELSE healthChanged) \/ (isHealthy[a] # v)
    IN  /\ ~hcNotify
        /\ a \in todo
        /\ isHealthy' = [isHealthy EXCEPT ![a] = v]
        /\ hcTodo' = todo \ {a}
        /\ healthChanged' = changed
        /\ hcNotify' = (todo = {a} /\ changed)

\* UpdateWeights, called as onHealthChange:
\* "if h.checkAnalyzerHealth() { onHealthChange() }"
UpdateWeights ==
    /\ currentWeights' = ResetWeights
    /\ nSel' = 0
    /\ selCount' = [x \in Analyzers |-> 0]

\* ------------------------------------------------------------ pipeline data
PacketIds == 1..MaxPackets

\* a models.LogPacket: its ID and RetryCount (the messages play no part here)
Packet(id, n) == [ID |-> id, RetryCount |-> n]

\* the Error strings of models.AnalysisResult
ErrSimulated == "simulated processing error"
ErrShutdown == "processing interrupted by shutdown"
ErrTimeout == "result channel timeout - system overloaded"

AnalysisResult(id, a, ok, err) ==
    [PacketID |-> id, AnalyzerID |-> a, Success |-> ok, Error |-> err]

NoSnapshot == [exists |-> FALSE]

\* the Go runtime's panics on channels
NoPanic == ""
SendOnClosed == "send on closed channel"
CloseOfClosed == "close of closed channel"

\* createTestDistributor: one analyzer "test-analyzer" of weight 1.0
TestRegistry == <<MaxWeight>>

InitPipelineFor(ids, budget) ==
    /\ isRunning = FALSE
    /\ ctxDone = FALSE
    /\ closed = FALSE
    /\ stopPc = "idle"
    /\ panicked = NoPanic
    /\ packetChannel = <<>>
    /\ resultChannel = <<>>
    /\ retryChannel = <<>>
    /\ packetMap = <<>>
    /\ timers = EmptyBag
    /\ tasks = EmptyBag
    /\ saturated = FALSE
    /\ pw = [w \in 1..PacketWorkers |-> [st |-> "off"]]
    /\ rw = [w \in 1..PacketWorkers |-> "off"]
    /\ pump = [st |-> "off"]
    /\ ckpt = "off"
    /\ hc = "off"
    /\ snapshot = NoSnapshot
    /\ deadLetter = <<>>
    /\ totalPacketsReceived = 0
    /\ submitting = {}
    /\ submitBudget = budget
    /\ submitResult = [id \in ids |-> "none"]
    /\ attempts = [id \in ids |-> 0]
    /\ term = [id \in ids |-> "none"]
    /\ anomaly = [id \in ids |-> FALSE]
    /\ lastError = [id \in ids |-> ""]
    /\ lastCall = [op |-> "none", res |-> "none", seq |-> 0]

InitPipeline(budget) == InitPipelineFor(PacketIds, budget)

\* the call-level variables before the first call
NoPacket == [ID |-> Nil, RetryCount |-> 0, Messages |-> <<>>]
NoError == [rule |-> "nil", n |-> 0]

InitSubmitVars ==
    /\ subPacket = NoPacket
    /\ subErr = NoError
    /\ subCalls = 0
    /\ okSubmits = 0
    /\ restoredTotal = 0

\* no dead-letter file, no packet failing
NoFile == [bytes |-> "absent", entries |-> <<>>]
NoRead == [status |-> "none", entries |-> <<>>]
IdleWriter == [pc |-> "idle", id |-> Nil, found |-> <<>>, entries |-> <<>>]

InitDLVars ==
    /\ dlFile = NoFile
    /\ dlWriters = [w \in 1..MaxWriters |-> IdleWriter]
    /\ dlRead = NoRead
    /\ dlNext = 0
    /\ dlDone = {}

\* no state, no state file, no RecoverState call yet
NoState == [Analyzers |-> <<>>, PendingPackets |-> <<>>,
            LastCheckpoint |-> [wall |-> 0, mono |-> 0], TotalProcessed |-> 0]
NoStateFile == [exists |-> FALSE]
NotRecovered == [err |-> "none", state |-> NoState]

InitPersistVars ==
    /\ psState = NoState
    /\ psFile = NoStateFile
    /\ psRecovered = NotRecovered

\* initializeAnalyzers builds d.analyzers from config.GetDefaultAnalyzers, the ids
\* the balancer's registry has: all healthy, counters 0
NoStats == [TotalPacketsReceived |-> 0, ActiveAnalyzers |-> 0, AnalyzerStats |-> <<>>,
            PacketChannelUtil |-> 0]

InitStatsVars ==
    /\ dProcessed = [a \in DOMAIN originalWeights |-> 0]
    /\ dErrors = [a \in DOMAIN originalWeights |-> 0]
    /\ dHealthy = [a \in DOMAIN originalWeights |-> TRUE]
    /\ lbProcessed = [a \in DOMAIN originalWeights |-> 0]
    /\ lbErrors = [a \in DOMAIN originalWeights |-> 0]
    /\ outcomes = [a \in DOMAIN originalWeights |-> [ok |-> 0, failed |-> 0]]
    /\ merged = 0
    /\ stats = NoStats
    /\ statsCalls = 0

\* no HandleFailedPacket call yet
NoCall == [id |-> Nil, seq |-> 0, scheduled |-> FALSE, retry |-> 0, delay |-> 0]

InitRetryVars ==
    /\ rtCall = NoCall
    /\ rtSubmits = 0

\* lb.mu unlocked, no call under way
IdleSelect == [pc |-> "idle", todo |-> {}, H |-> {}]

InitLockVars ==
    /\ lbMu = "free"
    /\ selPc = [w \in 1..MaxSelectors |-> IdleSelect]
    /\ updPc = "idle"
    /\ rejoined = {}

\* no recovery yet, no call made
InitFlowVars ==
    /\ stranded = {}
    /\ flowSubmits = 0

\* no getState call under way, no SubmitPacket call made
NoDraft == [pending |-> <<>>, counter |-> 0, processed |-> <<>>]

InitSnapVars ==
    /\ snapPc = "idle"
    /\ snapDraft = NoDraft
    /\ snapSeen = {}
    /\ snapCalls = 0
    /\ subPc = [id \in {} |-> "idle"]

\* no RetryHandler call made
NoOp == [op |-> "none", id |-> Nil]

InitTrackVars ==
    /\ trHeap = <<>>
    /\ trSlice = <<>>
    /\ trPrev = [map |-> <<>>, heap |-> <<>>]
    /\ trOp = NoOp
    /\ trCalls = 0

InitLaterVars ==
    /\ InitRetryVars /\ InitLockVars /\ InitFlowVars /\ InitSnapVars /\ InitTrackVars

InitAux ==
    /\ InitSubmitVars /\ InitDLVars /\ InitPersistVars /\ InitStatsVars
    /\ InitLaterVars

\* ------------------------------------------------------------ the load balancer with its monitor
\* config.GetDefaultAnalyzers: 0.4, 0.3, 0.2, 0.1
DefaultRegistry == <<4, 3, 2, 1>>
\* four analyzers at config.MaxWeight
UniformRegistry == <<MaxWeight, MaxWeight, MaxWeight, MaxWeight>>
\* TestLoadBalancer_HealthyOnly: 0.5, 0.5
HalfRegistry == <<5, 5>>
\* an analyzer at config.MinWeight
ZeroRegistry == <<5, MinWeight>>

Registries == {DefaultRegistry, UniformRegistry, HalfRegistry, ZeroRegistry}

InitBalancer(registry, health) ==
    /\ originalWeights = registry
    /\ currentWeights = registry
    /\ isHealthy = health
    /\ hcTodo = {}
    /\ healthChanged = FALSE
    /\ hcNotify = FALSE
    /\ lastSelected = Nil
    /\ lastSelectable = FALSE
    /\ lastInHealthy = FALSE
    /\ lastSmallest = Nil
    /\ hcTicks = 0
    /\ lbCalls = 0
    /\ nSel = 0
    /\ selCount = [x \in DOMAIN registry |-> 0]

InitLB ==
    /\ \E registry \in Registries :
           InitBalancer(registry, [a \in DOMAIN registry |-> TRUE])
    /\ InitPipeline(0)
    /\ InitAux

\* a direct SelectAnalyzer call
LBSelect ==
    \E sel \in Analyzers \cup {Nil} :
        /\ lbCalls < MaxSelects
        /\ lbCalls' = lbCalls + 1
        /\ SelectAnalyzer(sel)
        /\ UNCHANGED <<auxVars, originalWeights, isHealthy, hcTodo, healthChanged, hcNotify,
                       hcTicks, nSel, selCount>>
        /\ UNCHANGED pipeVars

LBProbe ==
    \E a \in Analyzers, v \in BOOLEAN :
        /\ hcTodo = {} => hcTicks < MaxTicks
        /\ hcTicks' = IF hcTodo = {} THEN hcTicks + 1 ELSE hcTicks
        /\ ProbeAnalyzer(a, v)
        /\ UNCHANGED <<auxVars, originalWeights, currentWeights, lastSelected, lastSelectable,
                       lastInHealthy, lastSmallest, lbCalls, nSel, selCount>>
        /\ UNCHANGED pipeVars

LBOnHealthChange ==
    /\ hcNotify
    /\ hcNotify' = FALSE
    /\ UpdateWeights
    /\ UNCHANGED <<auxVars, originalWeights, isHealthy, hcTodo, healthChanged, lastSelected,
                   lastSelectable, lastInHealthy, lastSmallest, hcTicks, lbCalls>>
    /\ UNCHANGED pipeVars

NextLB == LBSelect \/ LBProbe \/ LBOnHealthChange

SpecLB == InitLB /\ [][NextLB]_vars


\* ------------------------------------------------------------ the load balancer with fixed health
\* registries of NumAnalyzers analyzers with positive integer weights; SelectAnalyzer
\* never looks at an id, so only the registries sorted by weight are taken
IntRegistries ==
    {w \in [1..NumAnalyzers -> 1..MaxIntWeight] :
        \A i, j \in 1..NumAnalyzers : i < j => w[i] >= w[j]}

InitWRR ==
    /\ \E registry \in IntRegistries, health \in [1..NumAnalyzers -> BOOLEAN] :
           InitBalancer(registry, health)
    /\ InitPipeline(0)
    /\ InitAux

WRRSelect ==
    \E sel \in Analyzers \cup {Nil} :
        /\ nSel < MaxCycles * TotalWeight(HealthyAnalyzers)
        /\ SelectAnalyzer(sel)
        /\ nSel' = nSel + 1
        /\ selCount' = [x \in Analyzers |-> IF x = sel THEN selCount[x] + 1 ELSE selCount[x]]
        /\ UNCHANGED <<auxVars, originalWeights, isHealthy, hcTodo, healthChanged, hcNotify,
                       hcTicks, lbCalls>>
        /\ UNCHANGED pipeVars

WRRUpdateWeights ==
    /\ nSel > 0
    /\ UpdateWeights
    /\ UNCHANGED <<auxVars, originalWeights, isHealthy, hcTodo, healthChanged, hcNotify, lastSelected,
                   lastSelectable, lastInHealthy, lastSmallest, hcTicks, lbCalls>>
    /\ UNCHANGED pipeVars

NextWRR == WRRSelect \/ WRRUpdateWeights

SpecWRR == InitWRR /\ [][NextWRR]_vars

\* ------------------------------------------------------------ retry handler
\* a TrackPacket that stores the packet as a new one, retry_count 0
TrackPacketAsNew(m, packet) ==
    [k \in DOMAIN m \cup {packet.ID} |->
        IF k = packet.ID THEN [packet EXCEPT !.RetryCount = 0] ELSE m[k]]

\* TrackPacket: r.packetMap[packet.ID] = packet
TrackPacket(m, packet) ==
    [k \in DOMAIN m \cup {packet.ID} |-> IF k = packet.ID THEN packet ELSE m[k]]

\* an UntrackPacket that deletes nothing
UntrackNothing(m, id) == m

\* UntrackPacket: delete(r.packetMap, packetID)
UntrackPacket(m, id) == [k \in DOMAIN m \ {id} |-> m[k]]

\* a saveToDeadLetterFile that appends its entry twice
SaveToDeadLetterFileTwice(entries, packet, finalError) ==
    entries \o << [Packet |-> packet, FinalError |-> finalError],
                  [Packet |-> packet, FinalError |-> finalError] >>

\* saveToDeadLetterFile: the entry appended to the entries read from the file
SaveToDeadLetterFile(entries, packet, finalError) ==
    Append(entries, [Packet |-> packet, FinalError |-> finalError])

\* the first terminal event of a packet, and whether an event after it was seen
NoteTerminal(id, what) ==
    /\ term' = IF term[id] = "none" THEN [term EXCEPT ![id] = what] ELSE term
    /\ anomaly' = IF term[id] = "none" THEN anomaly ELSE [anomaly EXCEPT ![id] = TRUE]

\* a retry test that always gives up
CanRetryNever(packet) == FALSE

\* a retry test that is off by one
CanRetryOnceMore(packet) == packet.RetryCount <= MaxRetries

\* HandleFailedPacket: "if packet.RetryCount < config.MaxRetries"
CanRetry(packet) == packet.RetryCount < MaxRetries

\* a HandleFailedPacket that schedules every retry twice
HandleFailedPacketTwice(result) ==
    LET id == result.PacketID IN
    IF id \notin DOMAIN packetMap
    THEN UNCHANGED <<packetMap, timers, deadLetter, term, anomaly, lastError>>
    ELSE LET packet == packetMap[id] IN
         /\ lastError' = [lastError EXCEPT ![id] = result.Error]
         /\ IF CanRetry(packet)
            THEN LET retry == [packet EXCEPT !.RetryCount = @ + 1] IN
                 /\ packetMap' = [packetMap EXCEPT ![id] = retry]
                 /\ timers' = timers (+) SetToBag({retry}) (+) SetToBag({retry})
                 /\ UNCHANGED <<deadLetter, term, anomaly>>
            ELSE /\ packetMap' = UntrackPacket(packetMap, id)
                 /\ deadLetter' = SaveToDeadLetterFile(deadLetter, packet, result.Error)
                 /\ NoteTerminal(id, "deadletter")
                 /\ UNCHANGED timers

\* HandleFailedPacket(result)
HandleFailedPacket(result) ==
    LET id == result.PacketID IN
    IF id \notin DOMAIN packetMap
    THEN UNCHANGED <<packetMap, timers, deadLetter, term, anomaly, lastError>>
    ELSE LET packet == packetMap[id] IN
         /\ lastError' = [lastError EXCEPT ![id] = result.Error]
         /\ IF CanRetry(packet)
            THEN LET retry == [packet EXCEPT !.RetryCount = @ + 1] IN
                 /\ packetMap' = [packetMap EXCEPT ![id] = retry]
                 /\ timers' = timers (+) SetToBag({retry})
                 /\ UNCHANGED <<deadLetter, term, anomaly>>
            ELSE /\ packetMap' = UntrackPacket(packetMap, id)
                 /\ deadLetter' = SaveToDeadLetterFile(deadLetter, packet, result.Error)
                 /\ NoteTerminal(id, "deadletter")
                 /\ UNCHANGED timers

\* scheduleRetryWithCleanup: the timer fired.  The inner select sends when the
\* retry channel has room and otherwise drops the packet (default).  Its ctx is
\* the one NewRetryHandler was given; createDistributor and createTestDistributor
\* build it with "ctx, _ := context.WithCancel(context.Background())" and drop the
\* cancel function, so neither "case <-ctx.Done()" can ever be taken.
TimerFire ==
    \E packet \in BagToSet(timers) :
        /\ panicked = NoPanic
        /\ timers' = timers (-) SetToBag({packet})
        /\ IF Len(retryChannel) < RetryChannelBuffer
           THEN retryChannel' = Append(retryChannel, packet) /\ UNCHANGED saturated
           ELSE saturated' = TRUE /\ UNCHANGED retryChannel
        /\ UNCHANGED <<auxVars, originalWeights, currentWeights, isHealthy, hcTodo, healthChanged,
                       hcNotify, lastSelected, lastSelectable, lastInHealthy, lastSmallest,
                       hcTicks, lbCalls, nSel, selCount, isRunning, ctxDone, closed, stopPc,
                       panicked, packetChannel, resultChannel, packetMap, tasks, pw, rw,
                       pump, ckpt, hc, snapshot, deadLetter, totalPacketsReceived,
                       submitting, submitBudget, submitResult, attempts, term, anomaly,
                       lastError, lastCall>>

\* ProcessRetries: "case packet := <-r.retryChannel" and the map update
PumpReceive ==
    /\ panicked = NoPanic
    /\ pump.st = "select"
    /\ retryChannel # <<>>
    /\ LET packet == Head(retryChannel) IN
       /\ retryChannel' = Tail(retryChannel)
       /\ packetMap' = TrackPacket(packetMap, packet)
       /\ pump' = [st |-> "resubmit", packet |-> packet]
    /\ UNCHANGED <<auxVars, originalWeights, currentWeights, isHealthy, hcTodo, healthChanged,
                   hcNotify, lastSelected, lastSelectable, lastInHealthy, lastSmallest,
                   hcTicks, lbCalls, nSel, selCount, isRunning, ctxDone, closed, stopPc,
                   panicked, packetChannel, resultChannel, timers, tasks, pw, rw, ckpt, hc,
                   snapshot, deadLetter, totalPacketsReceived, submitting, submitBudget,
                   submitResult, attempts, term, anomaly, lastError, lastCall, saturated>>

\* ProcessRetries: the inner select: the send (a panic once packetChannel is
\* closed), SubmissionTimeout with the queue still full, or ctx.Done()
PumpResubmit ==
    /\ panicked = NoPanic
    /\ pump.st = "resubmit"
    /\ \/ /\ ~closed
          /\ Len(packetChannel) < PacketChannelBuffer
          /\ packetChannel' = Append(packetChannel, pump.packet)
          /\ pump' = [st |-> "select"]
          /\ UNCHANGED <<panicked, saturated>>
       \/ /\ closed
          /\ panicked' = SendOnClosed
          /\ UNCHANGED <<packetChannel, pump, saturated>>
       \/ /\ ~closed
          /\ Len(packetChannel) >= PacketChannelBuffer
          /\ pump' = [st |-> "select"]
          /\ saturated' = TRUE
          /\ UNCHANGED <<packetChannel, panicked>>
       \/ /\ ctxDone
          /\ pump' = [st |-> "exit"]
          /\ UNCHANGED <<packetChannel, panicked, saturated>>
    /\ UNCHANGED <<auxVars, originalWeights, currentWeights, isHealthy, hcTodo, healthChanged,
                   hcNotify, lastSelected, lastSelectable, lastInHealthy, lastSmallest,
                   hcTicks, lbCalls, nSel, selCount, isRunning, ctxDone, closed, stopPc,
                   resultChannel, retryChannel, packetMap, timers, tasks, pw, rw, ckpt, hc,
                   snapshot, deadLetter, totalPacketsReceived, submitting, submitBudget,
                   submitResult, attempts, term, anomaly, lastError, lastCall>>

\* ProcessRetries: wg.Add(1), run once the goroutine is scheduled
PumpRegister ==
    /\ panicked = NoPanic
    /\ pump.st = "spawned"
    /\ pump' = [st |-> "select"]
    /\ UNCHANGED <<auxVars, originalWeights, currentWeights, isHealthy, hcTodo, healthChanged,
                   hcNotify, lastSelected, lastSelectable, lastInHealthy, lastSmallest,
                   hcTicks, lbCalls, nSel, selCount, isRunning, ctxDone, closed, stopPc,
                   panicked, packetChannel, resultChannel, retryChannel, packetMap, timers,
                   tasks, pw, rw, ckpt, hc, snapshot, deadLetter, totalPacketsReceived,
                   submitting, submitBudget, submitResult, attempts, term, anomaly,
                   lastError, lastCall, saturated>>

\* ProcessRetries: the outer "case <-ctx.Done()"
PumpExit ==
    /\ panicked = NoPanic
    /\ pump.st = "select"
    /\ ctxDone
    /\ pump' = [st |-> "exit"]
    /\ UNCHANGED <<auxVars, originalWeights, currentWeights, isHealthy, hcTodo, healthChanged,
                   hcNotify, lastSelected, lastSelectable, lastInHealthy, lastSmallest,
                   hcTicks, lbCalls, nSel, selCount, isRunning, ctxDone, closed, stopPc,
                   panicked, packetChannel, resultChannel, retryChannel, packetMap, timers,
                   tasks, pw, rw, ckpt, hc, snapshot, deadLetter, totalPacketsReceived,
                   submitting, submitBudget, submitResult, attempts, term, anomaly,
                   lastError, lastCall, saturated>>

\* ------------------------------------------------------------ distributor: Start, Stop, SubmitPacket
\* GetTrackedPackets: the tracked packets in map order, that is in any order
RECURSIVE Orderings(_)
Orderings(S) ==
    IF S = {} THEN {<<>>}
    ELSE UNION {{<<x>> \o rest : rest \in Orderings(S \ {x})} : x \in S}

\* getState: the snapshots SaveState may be handed
States ==
    {[exists |-> TRUE, PendingPackets |-> pending, TotalProcessed |-> totalPacketsReceived] :
        pending \in Orderings({packetMap[id] : id \in DOMAIN packetMap})}

\* recoverFromState: the packets tracked again
RECURSIVE RecoverTracked(_, _)
RecoverTracked(m, pending) ==
    IF pending = <<>> THEN m
    ELSE RecoverTracked(TrackPacket(m, Head(pending)), Tail(pending))

\* a recovery that enqueues nothing
RecoverQueueNothing(ch, pending) == ch

\* recoverFromState: the non-blocking sends ("default" when the queue is full)
RECURSIVE RecoverQueue(_, _)
RecoverQueue(ch, pending) ==
    IF pending = <<>> THEN ch
    ELSE RecoverQueue(IF Len(ch) < PacketChannelBuffer THEN Append(ch, Head(pending)) ELSE ch,
                      Tail(pending))

\* the goroutines of an earlier Start have all returned (the model keeps one
\* slot for each goroutine Start spawns).  The RunAnalyzer goroutines only wait
\* for d.ctx.Done() and touch nothing else; they have no slot.  A registered
\* checkpointer or health checker between two ticks has, once d.ctx is
\* cancelled, "case <-ctx.Done()" as its only ready case: it counts as returned.
NoGoroutineLeft ==
    /\ \A w \in 1..PacketWorkers : pw[w].st \in {"off", "exit"} /\ rw[w] \in {"off", "exit"}
    /\ pump.st \in {"off", "exit"}
    /\ ckpt = "off" \/ (ckpt = "run" /\ ctxDone)
    /\ hc = "off" \/ (hc = "run" /\ ctxDone /\ hcTodo = {} /\ ~hcNotify)

\* result of a lifecycle call; seq tells two calls with the same result apart
Call(op, res) == [op |-> op, res |-> res, seq |-> 1 - lastCall.seq]

\* a Start that never looks at d.isRunning
StartNeverRefused == FALSE

\* Start: "if d.isRunning" under d.mu
StartRefused == isRunning

\* Start on a running distributor
StartAlreadyRunning ==
    /\ panicked = NoPanic
    /\ StartRefused
    /\ lastCall' = Call("Start", "AlreadyRunning")
    /\ UNCHANGED <<auxVars, originalWeights, currentWeights, isHealthy, hcTodo, healthChanged,
                   hcNotify, lastSelected, lastSelectable, lastInHealthy, lastSmallest,
                   hcTicks, lbCalls, nSel, selCount, isRunning, ctxDone, closed, stopPc,
                   panicked, packetChannel, resultChannel, retryChannel, packetMap, timers,
                   tasks, pw, rw, pump, ckpt, hc, snapshot, deadLetter,
                   totalPacketsReceived, submitting, submitBudget, submitResult, attempts,
                   term, anomaly, lastError, saturated>>

\* Start: recovery, then the go statements
Start ==
    /\ panicked = NoPanic
    /\ ~StartRefused
    /\ stopPc = "idle"
    /\ NoGoroutineLeft
    /\ isRunning' = TRUE
    /\ lastCall' = Call("Start", "ok")
    /\ IF ~snapshot.exists
       THEN UNCHANGED <<packetMap, packetChannel, totalPacketsReceived, panicked, saturated>>
       ELSE IF closed /\ snapshot.PendingPackets # <<>>
       THEN /\ panicked' = SendOnClosed
            /\ packetMap' = TrackPacket(packetMap, Head(snapshot.PendingPackets))
            /\ UNCHANGED <<packetChannel, totalPacketsReceived, saturated>>
       ELSE /\ packetMap' = RecoverTracked(packetMap, snapshot.PendingPackets)
            /\ packetChannel' = RecoverQueue(packetChannel, snapshot.PendingPackets)
            /\ totalPacketsReceived' = snapshot.TotalProcessed
            /\ saturated' = (saturated \/ Len(packetChannel) + Len(snapshot.PendingPackets)
                                             > PacketChannelBuffer)
            /\ UNCHANGED panicked
    /\ IF panicked' # NoPanic
       THEN UNCHANGED <<pw, rw, pump, ckpt, hc>>
       ELSE /\ pw' = [w \in 1..PacketWorkers |-> [st |-> "spawned"]]
            /\ rw' = [w \in 1..PacketWorkers |-> "spawned"]
            /\ pump' = [st |-> "spawned"]
            /\ ckpt' = "spawned"
            /\ hc' = "spawned"
    /\ UNCHANGED <<auxVars, originalWeights, currentWeights, isHealthy, hcTodo, healthChanged,
                   hcNotify, lastSelected, lastSelectable, lastInHealthy, lastSmallest,
                   hcTicks, lbCalls, nSel, selCount, ctxDone, closed, stopPc, resultChannel,
                   retryChannel, timers, tasks, snapshot, deadLetter, submitting,
                   submitBudget, submitResult, attempts, term, anomaly, lastError>>

\* Stop: "if !d.isRunning" under d.mu
StopRefused == ~isRunning

\* Stop on a distributor that is not running
StopNotRunning ==
    /\ panicked = NoPanic
    /\ StopRefused
    /\ lastCall' = Call("Stop", "NotRunning")
    /\ UNCHANGED <<auxVars, originalWeights, currentWeights, isHealthy, hcTodo, healthChanged,
                   hcNotify, lastSelected, lastSelectable, lastInHealthy, lastSmallest,
                   hcTicks, lbCalls, nSel, selCount, isRunning, ctxDone, closed, stopPc,
                   panicked, packetChannel, resultChannel, retryChannel, packetMap, timers,
                   tasks, pw, rw, pump, ckpt, hc, snapshot, deadLetter,
                   totalPacketsReceived, submitting, submitBudget, submitResult, attempts,
                   term, anomaly, lastError, saturated>>

\* Stop: d.isRunning = false under d.mu
StopBegin ==
    /\ panicked = NoPanic
    /\ ~StopRefused
    /\ stopPc = "idle"
    /\ isRunning' = FALSE
    /\ stopPc' = "save"
    /\ lastCall' = Call("Stop", "ok")
    /\ UNCHANGED <<auxVars, originalWeights, currentWeights, isHealthy, hcTodo, healthChanged,
                   hcNotify, lastSelected, lastSelectable, lastInHealthy, lastSmallest,
                   hcTicks, lbCalls, nSel, selCount, ctxDone, closed, panicked,
                   packetChannel, resultChannel, retryChannel, packetMap, timers, tasks, pw,
                   rw, pump, ckpt, hc, snapshot, deadLetter, totalPacketsReceived,
                   submitting, submitBudget, submitResult, attempts, term, anomaly,
                   lastError, saturated>>

\* Stop: d.persistence.SaveState(d.getState())
StopSave ==
    /\ panicked = NoPanic
    /\ stopPc = "save"
    /\ snapshot' \in States
    /\ stopPc' = "cancel"
    /\ UNCHANGED <<auxVars, originalWeights, currentWeights, isHealthy, hcTodo, healthChanged,
                   hcNotify, lastSelected, lastSelectable, lastInHealthy, lastSmallest,
                   hcTicks, lbCalls, nSel, selCount, isRunning, ctxDone, closed, panicked,
                   packetChannel, resultChannel, retryChannel, packetMap, timers, tasks, pw,
                   rw, pump, ckpt, hc, deadLetter, totalPacketsReceived, submitting,
                   submitBudget, submitResult, attempts, term, anomaly, lastError, lastCall,
                   saturated>>

\* Stop: d.cancel()
StopCancel ==
    /\ panicked = NoPanic
    /\ stopPc = "cancel"
    /\ ctxDone' = TRUE
    /\ stopPc' = "wait"
    /\ UNCHANGED <<auxVars, originalWeights, currentWeights, isHealthy, hcTodo, healthChanged,
                   hcNotify, lastSelected, lastSelectable, lastInHealthy, lastSmallest,
                   hcTicks, lbCalls, nSel, selCount, isRunning, closed, panicked,
                   packetChannel, resultChannel, retryChannel, packetMap, timers, tasks, pw,
                   rw, pump, ckpt, hc, snapshot, deadLetter, totalPacketsReceived,
                   submitting, submitBudget, submitResult, attempts, term, anomaly,
                   lastError, lastCall, saturated>>

\* Stop: d.wg.Wait() returns once every goroutine that ran wg.Add(1) has run
\* wg.Done() (the health checker first finishes the tick it is in); then the
\* three close calls (a panic when already closed)
StopFinish ==
    /\ panicked = NoPanic
    /\ stopPc = "wait"
    /\ \A w \in 1..PacketWorkers :
           pw[w].st \in {"off", "spawned", "exit"} /\ rw[w] \in {"off", "spawned", "exit"}
    /\ pump.st \in {"off", "spawned", "exit"}
    /\ hc = "run" => hcTodo = {} /\ ~hcNotify
    /\ stopPc' = "idle"
    /\ IF closed THEN panicked' = CloseOfClosed /\ UNCHANGED closed
                 ELSE closed' = TRUE /\ UNCHANGED panicked
    /\ UNCHANGED <<auxVars, originalWeights, currentWeights, isHealthy, hcTodo, healthChanged,
                   hcNotify, lastSelected, lastSelectable, lastInHealthy, lastSmallest,
                   hcTicks, lbCalls, nSel, selCount, isRunning, ctxDone, packetChannel,
                   resultChannel, retryChannel, packetMap, timers, tasks, pw, rw, pump,
                   ckpt, hc, snapshot, deadLetter, totalPacketsReceived, submitting,
                   submitBudget, submitResult, attempts, term, anomaly, lastError, lastCall,
                   saturated>>

\* SubmitPacket up to its select: validation passed, TrackPacket, the counter.
\* Callers use a fresh id for each packet.
SubmitTrack ==
    LET id == MaxPackets - submitBudget + 1 IN
    /\ panicked = NoPanic
    /\ submitBudget > 0
    /\ submitBudget' = submitBudget - 1
    /\ packetMap' = TrackPacket(packetMap, Packet(id, 0))
    /\ totalPacketsReceived' = totalPacketsReceived + 1
    /\ submitting' = submitting \cup {id}
    /\ UNCHANGED <<auxVars, originalWeights, currentWeights, isHealthy, hcTodo, healthChanged,
                   hcNotify, lastSelected, lastSelectable, lastInHealthy, lastSmallest,
                   hcTicks, lbCalls, nSel, selCount, isRunning, ctxDone, closed, stopPc,
                   panicked, packetChannel, resultChannel, retryChannel, timers, tasks, pw,
                   rw, pump, ckpt, hc, snapshot, deadLetter, submitResult, attempts, term,
                   anomaly, lastError, lastCall, saturated>>

\* SubmitPacket's select: the send (a panic once the queue is closed),
\* SubmissionTimeout with the queue still full, or d.ctx.Done()
SubmitSelect ==
    \E id \in submitting :
        /\ panicked = NoPanic
        /\ submitting' = submitting \ {id}
        /\ \/ /\ ~closed
              /\ Len(packetChannel) < PacketChannelBuffer
              /\ packetChannel' = Append(packetChannel, Packet(id, 0))
              /\ submitResult' = [submitResult EXCEPT ![id] = "ok"]
              /\ UNCHANGED <<packetMap, panicked, saturated>>
           \/ /\ closed
              /\ panicked' = SendOnClosed
              /\ UNCHANGED <<packetChannel, submitResult, packetMap, saturated>>
           \/ /\ ~closed
              /\ Len(packetChannel) >= PacketChannelBuffer
              /\ packetMap' = UntrackPacket(packetMap, id)
              /\ submitResult' = [submitResult EXCEPT ![id] = "QueueFull"]
              /\ saturated' = TRUE
              /\ UNCHANGED <<packetChannel, panicked>>
           \/ /\ ctxDone
              /\ submitResult' = [submitResult EXCEPT ![id] = "ShuttingDown"]
              /\ UNCHANGED <<packetChannel, packetMap, panicked, saturated>>
        /\ UNCHANGED <<auxVars, originalWeights, currentWeights, isHealthy, hcTodo, healthChanged,
                       hcNotify, lastSelected, lastSelectable, lastInHealthy, lastSmallest,
                       hcTicks, lbCalls, nSel, selCount, isRunning, ctxDone, closed, stopPc,
                       resultChannel, retryChannel, timers, tasks, pw, rw, pump, ckpt, hc,
                       snapshot, deadLetter, totalPacketsReceived, submitBudget, attempts,
                       term, anomaly, lastError, lastCall>>

\* ------------------------------------------------------------ distributor: workers and tasks
\* the zero value a receive from the closed packetChannel yields
ZeroPacket == Packet(Nil, 0)

\* a running sendToAnalyzer goroutine
Task(packet, a) == [ID |-> packet.ID, AnalyzerID |-> a]

\* processPackets: wg.Add(1), run once the goroutine is scheduled
PWRegister(w) ==
    /\ panicked = NoPanic
    /\ pw[w].st = "spawned"
    /\ pw' = [pw EXCEPT ![w] = [st |-> "select"]]
    /\ UNCHANGED <<auxVars, originalWeights, currentWeights, isHealthy, hcTodo, healthChanged,
                   hcNotify, lastSelected, lastSelectable, lastInHealthy, lastSmallest,
                   hcTicks, lbCalls, nSel, selCount, isRunning, ctxDone, closed, stopPc,
                   panicked, packetChannel, resultChannel, retryChannel, packetMap, timers,
                   tasks, rw, pump, ckpt, hc, snapshot, deadLetter, totalPacketsReceived,
                   submitting, submitBudget, submitResult, attempts, term, anomaly,
                   lastError, lastCall, saturated>>

\* processPackets: "case packet := <-d.packetChannel" and distributePacket.  A
\* closed and drained channel yields zero packets.
PWReceive(w) ==
    \E packet \in {Packet(id, n) : id \in PacketIds \cup {Nil}, n \in 0..MaxRetries},
       sel \in Analyzers \cup {Nil} :
        /\ panicked = NoPanic
        /\ pw[w].st = "select"
        /\ \/ /\ packetChannel # <<>>
              /\ packet = Head(packetChannel)
              /\ packetChannel' = Tail(packetChannel)
           \/ /\ packetChannel = <<>>
              /\ closed
              /\ packet = ZeroPacket
              /\ CopiesIn(Task(ZeroPacket, 1), tasks) < MaxStrayTasks
              /\ UNCHANGED packetChannel
        /\ SelectAnalyzer(sel)
        /\ IF sel = Nil
           THEN /\ pw' = [pw EXCEPT ![w] = [st |-> "requeue", packet |-> packet]]
                /\ UNCHANGED <<tasks, attempts, anomaly>>
           ELSE /\ tasks' = tasks (+) SetToBag({Task(packet, sel)})
                /\ IF packet.ID = Nil
                   THEN UNCHANGED <<attempts, anomaly>>
                   ELSE /\ attempts' = [attempts EXCEPT ![packet.ID] = @ + 1]
                        /\ anomaly' = IF term[packet.ID] = "none" THEN anomaly
                                      ELSE [anomaly EXCEPT ![packet.ID] = TRUE]
                /\ UNCHANGED pw
        /\ UNCHANGED <<auxVars, originalWeights, isHealthy, hcTodo, healthChanged, hcNotify, hcTicks,
                       lbCalls, nSel, selCount, isRunning, ctxDone, closed, stopPc,
                       panicked, resultChannel, retryChannel, packetMap, timers, rw, pump,
                       ckpt, hc, snapshot, deadLetter, totalPacketsReceived, submitting,
                       submitBudget, submitResult, term, lastError, lastCall, saturated>>

\* requeuePacketWithDelay: the timer fired; the inner select sends (a panic once
\* the queue is closed), takes d.ctx.Done(), or drops the packet (default)
PWRequeueFire(w) ==
    /\ panicked = NoPanic
    /\ pw[w].st = "requeue"
    /\ \/ /\ ~closed
          /\ Len(packetChannel) < PacketChannelBuffer
          /\ packetChannel' = Append(packetChannel, pw[w].packet)
          /\ pw' = [pw EXCEPT ![w] = [st |-> "select"]]
          /\ UNCHANGED <<panicked, saturated>>
       \/ /\ closed
          /\ panicked' = SendOnClosed
          /\ UNCHANGED <<packetChannel, pw, saturated>>
       \/ /\ ctxDone
          /\ pw' = [pw EXCEPT ![w] = [st |-> "select"]]
          /\ UNCHANGED <<packetChannel, panicked, saturated>>
       \/ /\ ~closed
          /\ ~ctxDone
          /\ Len(packetChannel) >= PacketChannelBuffer
          /\ pw' = [pw EXCEPT ![w] = [st |-> "select"]]
          /\ saturated' = TRUE
          /\ UNCHANGED <<packetChannel, panicked>>
    /\ UNCHANGED <<auxVars, originalWeights, currentWeights, isHealthy, hcTodo, healthChanged,
                   hcNotify, lastSelected, lastSelectable, lastInHealthy, lastSmallest,
                   hcTicks, lbCalls, nSel, selCount, isRunning, ctxDone, closed, stopPc,
                   resultChannel, retryChannel, packetMap, timers, tasks, rw, pump, ckpt,
                   hc, snapshot, deadLetter, totalPacketsReceived, submitting, submitBudget,
                   submitResult, attempts, term, anomaly, lastError, lastCall>>

\* requeuePacketWithDelay: the outer "case <-d.ctx.Done()"
PWRequeueAbort(w) ==
    /\ panicked = NoPanic
    /\ pw[w].st = "requeue"
    /\ ctxDone
    /\ pw' = [pw EXCEPT ![w] = [st |-> "select"]]
    /\ UNCHANGED <<auxVars, originalWeights, currentWeights, isHealthy, hcTodo, healthChanged,
                   hcNotify, lastSelected, lastSelectable, lastInHealthy, lastSmallest,
                   hcTicks, lbCalls, nSel, selCount, isRunning, ctxDone, closed, stopPc,
                   panicked, packetChannel, resultChannel, retryChannel, packetMap, timers,
                   tasks, rw, pump, ckpt, hc, snapshot, deadLetter, totalPacketsReceived,
                   submitting, submitBudget, submitResult, attempts, term, anomaly,
                   lastError, lastCall, saturated>>

\* processPackets: "case <-d.ctx.Done()"
PWExit(w) ==
    /\ panicked = NoPanic
    /\ pw[w].st = "select"
    /\ ctxDone
    /\ pw' = [pw EXCEPT ![w] = [st |-> "exit"]]
    /\ UNCHANGED <<auxVars, originalWeights, currentWeights, isHealthy, hcTodo, healthChanged,
                   hcNotify, lastSelected, lastSelectable, lastInHealthy, lastSmallest,
                   hcTicks, lbCalls, nSel, selCount, isRunning, ctxDone, closed, stopPc,
                   panicked, packetChannel, resultChannel, retryChannel, packetMap, timers,
                   tasks, rw, pump, ckpt, hc, snapshot, deadLetter, totalPacketsReceived,
                   submitting, submitBudget, submitResult, attempts, term, anomaly,
                   lastError, lastCall, saturated>>

\* sendToAnalyzer: ProcessPacket, then the select: the send (a panic once the
\* queue is closed), d.ctx.Done(), or ResultTimeout with the queue still full
SendToAnalyzer ==
    \E t \in BagToSet(tasks), success \in BOOLEAN :
        /\ panicked = NoPanic
        /\ tasks' = tasks (-) SetToBag({t})
        /\ \/ /\ ~closed
              /\ Len(resultChannel) < ResultChannelBuffer
              /\ resultChannel' = Append(resultChannel,
                     AnalysisResult(t.ID, t.AnalyzerID, success,
                                    IF success THEN "" ELSE ErrSimulated))
              /\ UNCHANGED <<panicked, saturated, packetMap, timers, deadLetter, term,
                             anomaly, lastError>>
           \/ /\ closed
              /\ panicked' = SendOnClosed
              /\ UNCHANGED <<resultChannel, saturated, packetMap, timers, deadLetter, term,
                             anomaly, lastError>>
           \/ /\ ctxDone
              /\ HandleFailedPacket(AnalysisResult(t.ID, t.AnalyzerID, FALSE, ErrShutdown))
              /\ UNCHANGED <<resultChannel, panicked, saturated>>
           \/ /\ ~closed
              /\ Len(resultChannel) >= ResultChannelBuffer
              /\ HandleFailedPacket(AnalysisResult(t.ID, t.AnalyzerID, FALSE, ErrTimeout))
              /\ saturated' = TRUE
              /\ UNCHANGED <<resultChannel, panicked>>
        /\ UNCHANGED <<auxVars, originalWeights, currentWeights, isHealthy, hcTodo, healthChanged,
                       hcNotify, lastSelected, lastSelectable, lastInHealthy, lastSmallest,
                       hcTicks, lbCalls, nSel, selCount, isRunning, ctxDone, closed, stopPc,
                       packetChannel, retryChannel, pw, rw, pump, ckpt, hc, snapshot,
                       totalPacketsReceived, submitting, submitBudget, submitResult,
                       attempts, lastCall>>

\* processResults: wg.Add(1), run once the goroutine is scheduled
RWRegister(w) ==
    /\ panicked = NoPanic
    /\ rw[w] = "spawned"
    /\ rw' = [rw EXCEPT ![w] = "select"]
    /\ UNCHANGED <<auxVars, originalWeights, currentWeights, isHealthy, hcTodo, healthChanged,
                   hcNotify, lastSelected, lastSelectable, lastInHealthy, lastSmallest,
                   hcTicks, lbCalls, nSel, selCount, isRunning, ctxDone, closed, stopPc,
                   panicked, packetChannel, resultChannel, retryChannel, packetMap, timers,
                   tasks, pw, pump, ckpt, hc, snapshot, deadLetter, totalPacketsReceived,
                   submitting, submitBudget, submitResult, attempts, term, anomaly,
                   lastError, lastCall, saturated>>

\* processResults: "case result := <-d.resultChannel".  (A zero result from the
\* closed channel names no tracked packet: HandleFailedPacket returns at once.)
RWReceive(w) ==
    /\ panicked = NoPanic
    /\ rw[w] = "select"
    /\ resultChannel # <<>>
    /\ resultChannel' = Tail(resultChannel)
    /\ LET result == Head(resultChannel) IN
       IF result.Success
       THEN /\ packetMap' = UntrackPacket(packetMap, result.PacketID)
            /\ NoteTerminal(result.PacketID, "success")
            /\ UNCHANGED <<timers, deadLetter, lastError>>
       ELSE HandleFailedPacket(result)
    /\ UNCHANGED <<auxVars, originalWeights, currentWeights, isHealthy, hcTodo, healthChanged,
                   hcNotify, lastSelected, lastSelectable, lastInHealthy, lastSmallest,
                   hcTicks, lbCalls, nSel, selCount, isRunning, ctxDone, closed, stopPc,
                   panicked, packetChannel, retryChannel, tasks, pw, rw, pump, ckpt, hc,
                   snapshot, totalPacketsReceived, submitting, submitBudget, submitResult,
                   attempts, lastCall, saturated>>

\* processResults: "case <-d.ctx.Done()"
RWExit(w) ==
    /\ panicked = NoPanic
    /\ rw[w] = "select"
    /\ ctxDone
    /\ rw' = [rw EXCEPT ![w] = "exit"]
    /\ UNCHANGED <<auxVars, originalWeights, currentWeights, isHealthy, hcTodo, healthChanged,
                   hcNotify, lastSelected, lastSelectable, lastInHealthy, lastSmallest,
                   hcTicks, lbCalls, nSel, selCount, isRunning, ctxDone, closed, stopPc,
                   panicked, packetChannel, resultChannel, retryChannel, packetMap, timers,
                   tasks, pw, pump, ckpt, hc, snapshot, deadLetter, totalPacketsReceived,
                   submitting, submitBudget, submitResult, attempts, term, anomaly,
                   lastError, lastCall, saturated>>

\* ------------------------------------------------------------ checkpointer and health monitor
\* stateCheckpointer: wg.Add(1)
CheckpointRegister ==
    /\ panicked = NoPanic
    /\ ckpt = "spawned"
    /\ ckpt' = "run"
    /\ UNCHANGED <<auxVars, originalWeights, currentWeights, isHealthy, hcTodo, healthChanged,
                   hcNotify, lastSelected, lastSelectable, lastInHealthy, lastSmallest,
                   hcTicks, lbCalls, nSel, selCount, isRunning, ctxDone, closed, stopPc,
                   panicked, packetChannel, resultChannel, retryChannel, packetMap, timers,
                   tasks, pw, rw, pump, hc, snapshot, deadLetter, totalPacketsReceived,
                   submitting, submitBudget, submitResult, attempts, term, anomaly,
                   lastError, lastCall, saturated>>

\* stateCheckpointer: "case <-ticker.C": SaveState(getStateFunc()); with d.ctx
\* cancelled the goroutine takes "case <-ctx.Done()" and returns
CheckpointTick ==
    /\ panicked = NoPanic
    /\ ckpt = "run"
    /\ ~ctxDone
    /\ snapshot' \in States
    /\ UNCHANGED <<auxVars, originalWeights, currentWeights, isHealthy, hcTodo, healthChanged,
                   hcNotify, lastSelected, lastSelectable, lastInHealthy, lastSmallest,
                   hcTicks, lbCalls, nSel, selCount, isRunning, ctxDone, closed, stopPc,
                   panicked, packetChannel, resultChannel, retryChannel, packetMap, timers,
                   tasks, pw, rw, pump, ckpt, hc, deadLetter, totalPacketsReceived,
                   submitting, submitBudget, submitResult, attempts, term, anomaly,
                   lastError, lastCall, saturated>>

\* healthChecker: wg.Add(1)
HCRegister ==
    /\ panicked = NoPanic
    /\ hc = "spawned"
    /\ hc' = "run"
    /\ UNCHANGED <<auxVars, originalWeights, currentWeights, isHealthy, hcTodo, healthChanged,
                   hcNotify, lastSelected, lastSelectable, lastInHealthy, lastSmallest,
                   hcTicks, lbCalls, nSel, selCount, isRunning, ctxDone, closed, stopPc,
                   panicked, packetChannel, resultChannel, retryChannel, packetMap, timers,
                   tasks, pw, rw, pump, ckpt, snapshot, deadLetter, totalPacketsReceived,
                   submitting, submitBudget, submitResult, attempts, term, anomaly,
                   lastError, lastCall, saturated>>

\* healthChecker: "case <-ticker.C": one iteration of checkAnalyzerHealth's loop;
\* with d.ctx cancelled no new tick starts ("case <-ctx.Done()")
HCProbe ==
    \E a \in Analyzers, v \in BOOLEAN :
        /\ panicked = NoPanic
        /\ hc = "run"
        /\ hcTodo = {} => ~ctxDone
        /\ ProbeAnalyzer(a, v)
        /\ UNCHANGED <<auxVars, originalWeights, currentWeights, lastSelected, lastSelectable,
                       lastInHealthy, lastSmallest, hcTicks, lbCalls, nSel, selCount,
                       isRunning, ctxDone, closed, stopPc, panicked, packetChannel,
                       resultChannel, retryChannel, packetMap, timers, tasks, pw, rw, pump,
                       ckpt, hc, snapshot, deadLetter, totalPacketsReceived, submitting,
                       submitBudget, submitResult, attempts, term, anomaly, lastError,
                       lastCall, saturated>>

\* healthChecker: onHealthChange(), which Start set to d.loadBalancer.UpdateWeights
HCOnHealthChange ==
    /\ panicked = NoPanic
    /\ hc = "run"
    /\ hcNotify
    /\ hcNotify' = FALSE
    /\ UpdateWeights
    /\ UNCHANGED <<auxVars, originalWeights, isHealthy, hcTodo, healthChanged, lastSelected,
                   lastSelectable, lastInHealthy, lastSmallest, hcTicks, lbCalls, isRunning,
                   ctxDone, closed, stopPc, panicked, packetChannel, resultChannel,
                   retryChannel, packetMap, timers, tasks, pw, rw, pump, ckpt, hc, snapshot,
                   deadLetter, totalPacketsReceived, submitting, submitBudget, submitResult,
                   attempts, term, anomaly, lastError, lastCall, saturated>>

\* ------------------------------------------------------------ the distributor
Init ==
    /\ InitBalancer(TestRegistry, [a \in DOMAIN TestRegistry |-> TRUE])
    /\ InitPipeline(MaxPackets)
    /\ InitAux

\* every step but the refused calls, which change nothing but lastCall
NextCore ==
    \/ Start
    \/ StopBegin \/ StopSave \/ StopCancel \/ StopFinish
    \/ SubmitTrack \/ SubmitSelect
    \/ \E w \in 1..PacketWorkers : PWRegister(w)
    \/ \E w \in 1..PacketWorkers : PWReceive(w)
    \/ \E w \in 1..PacketWorkers : PWRequeueFire(w)
    \/ \E w \in 1..PacketWorkers : PWRequeueAbort(w)
    \/ \E w \in 1..PacketWorkers : PWExit(w)
    \/ SendToAnalyzer
    \/ \E w \in 1..PacketWorkers : RWRegister(w)
    \/ \E w \in 1..PacketWorkers : RWReceive(w)
    \/ \E w \in 1..PacketWorkers : RWExit(w)
    \/ TimerFire
    \/ PumpRegister \/ PumpReceive \/ PumpResubmit \/ PumpExit
    \/ CheckpointRegister \/ CheckpointTick
    \/ HCRegister \/ HCProbe \/ HCOnHealthChange

Next == NextCore \/ StartAlreadyRunning \/ StopNotRunning

Spec == Init /\ [][Next]_vars

\* The Go scheduler runs every runnable goroutine and the runtime fires every
\* timer: each step of a goroutine or of a started call that stays possible is
\* taken.  Calls (Start, Stop, SubmitPacket), health ticks and checkpoint ticks
\* are not forced.
Fairness ==
    /\ WF_vars(SubmitSelect)
    /\ WF_vars(StopSave) /\ WF_vars(StopCancel) /\ WF_vars(StopFinish)
    /\ \A w \in 1..PacketWorkers :
           /\ WF_vars(PWRegister(w)) /\ WF_vars(PWReceive(w)) /\ WF_vars(PWRequeueFire(w))
           /\ WF_vars(PWExit(w))
           /\ WF_vars(RWRegister(w)) /\ WF_vars(RWReceive(w)) /\ WF_vars(RWExit(w))
    /\ WF_vars(SendToAnalyzer)
    /\ WF_vars(TimerFire)
    /\ WF_vars(PumpRegister) /\ WF_vars(PumpReceive) /\ WF_vars(PumpResubmit)
    /\ WF_vars(PumpExit)
    /\ WF_vars(CheckpointRegister) /\ WF_vars(HCRegister) /\ WF_vars(HCOnHealthChange)

FairSpec == Init /\ [][NextCore]_vars /\ Fairness


\* ------------------------------------------------------------ claims on the load balancer
Abs(x) == IF x < 0 THEN -x ELSE x

\* C9: with the healthy set and the weights fixed, k full cycles (k times the sum W
\* of the healthy weights) after construction or UpdateWeights every healthy
\* analyzer i was selected exactly k * original[i] times, and after any number N of
\* selections its count is less than two selections away from N * original[i] / W.
C9_ExactShares ==
    LET H == HealthyAnalyzers
        W == TotalWeight(H)
    IN  \A i \in Analyzers :
            /\ \A k \in 1..MaxCycles :
                   nSel = k * W =>
                       selCount[i] = IF i \in H THEN k * originalWeights[i] ELSE 0
            /\ i \in H => Abs(selCount[i] * W - nSel * originalWeights[i]) < 2 * W

C9_Witness ==
    LET H == HealthyAnalyzers
    IN  /\ Cardinality(H) >= 2
        /\ \E i, j \in H : originalWeights[i] # originalWeights[j]
        /\ nSel = MaxCycles * TotalWeight(H)

\* C8: SelectAnalyzer returns no selection if and only if no analyzer is healthy or
\* the healthy analyzers' original weights sum to 0, and otherwise returns an
\* analyzer it read as healthy.
C8_NoSelectionIffNothingSelectable ==
    /\ (lastSelected = Nil) <=> ~lastSelectable
    /\ lastSelected # Nil => lastInHealthy

\* C10: among the healthy analyzers of maximal current weight SelectAnalyzer
\* returns the one with the smallest id.
C10_TieBreakBySmallestId ==
    lastSelected # Nil => lastSelected = lastSmallest

\* ------------------------------------------------------------ claims on the distributor
\* every variable but lastCall
stateVars == <<lbVars, isRunning, ctxDone, closed, stopPc, panicked, packetChannel,
               resultChannel, retryChannel, packetMap, timers, tasks, saturated, pw, rw,
               pump, ckpt, hc, snapshot, deadLetter, totalPacketsReceived, submitting,
               submitBudget, submitResult, attempts, term, anomaly, lastError>>

DeadLetterEntries(id) == {i \in DOMAIN deadLetter : deadLetter[i].Packet.ID = id}

\* C1: a valid packet whose SubmitPacket returned an error (submission timeout or
\* shutting down) is not in the in-flight map afterwards, and one whose
\* SubmitPacket returned nil stays in the map until a success result untracks it
\* or it is dead-lettered.
C1_SubmitOutcome ==
    \A id \in PacketIds :
        /\ submitResult[id] \in {"QueueFull", "ShuttingDown"} => id \notin DOMAIN packetMap
        /\ submitResult[id] = "ok" /\ term[id] = "none" => id \in DOMAIN packetMap

SomeAnalyzerHealthy == \E a \in Analyzers : isHealthy[a]
StopCalled == stopPc # "idle" \/ ctxDone

C4_OneTerminalAfterAttempts ==
    \A id \in PacketIds :
        /\ ~anomaly[id]
        /\ term[id] # "none" => attempts[id] >= 1
        /\ attempts[id] >= 1 => submitResult[id] = "ok"
        /\ Cardinality(DeadLetterEntries(id)) <= 1
        /\ DeadLetterEntries(id) # {} <=> term[id] = "deadletter"

C4_Witness ==
    \E id \in PacketIds : term[id] = "success" /\ attempts[id] >= 2

\* C5: no goroutine and no SubmitPacket call sends on a queue that Stop has closed.
C5_NoSendOnClosedQueue == panicked # SendOnClosed

\* C6: once Stop has returned (and until the next Start) nothing is appended to
\* the packets, results or retries queue, the snapshot and the dead-letter file
\* stay as they are, and no retry is scheduled.
C6_NoWriteAfterStop ==
    [][(closed /\ ~isRunning /\ stopPc = "idle" /\ panicked = NoPanic) =>
          /\ Len(packetChannel') <= Len(packetChannel)
          /\ Len(resultChannel') <= Len(resultChannel)
          /\ Len(retryChannel') <= Len(retryChannel)
          /\ snapshot' = snapshot
          /\ deadLetter' = deadLetter
          /\ BagCardinality(timers') <= BagCardinality(timers)]_vars

\* C7: a Start call on a running distributor returns AlreadyRunning and a Stop
\* call on a distributor that is not running returns NotRunning, and neither
\* changes anything; a Start call succeeds only on a distributor that is not
\* running and leaves it running, a Stop call only on a running one and leaves it
\* not running, so of several concurrent calls one succeeds.
C7_LifecycleErrors ==
    [][lastCall' # lastCall =>
          /\ lastCall'.op = "Start" =>
                 IF isRunning
                 THEN lastCall'.res = "AlreadyRunning" /\ UNCHANGED stateVars
                 ELSE lastCall'.res = "ok" /\ isRunning'
          /\ lastCall'.op = "Stop" =>
                 IF ~isRunning
                 THEN lastCall'.res = "NotRunning" /\ UNCHANGED stateVars
                 ELSE lastCall'.res = "ok" /\ ~isRunning']_vars

C7_Witness ==
    /\ lastCall.op = "Start"
    /\ lastCall.res = "AlreadyRunning"
    /\ packetMap # <<>>

\* ------------------------------------------------------------ SubmitPacket, call by call
\* A message is modelled by len(msg.Message), the only thing validation reads:
\* an empty body, one of the largest length allowed, and one a byte longer.
MessageLengths == {0, MaxLogMessageLength, MaxLogMessageLength + 1}

\* the packets callers submit: up to MaxMessagesPerPacket + 1 messages
RECURSIVE SeqsUpTo(_, _)
SeqsUpTo(S, n) ==
    IF n = 0 THEN {<<>>}
    ELSE LET shorter == SeqsUpTo(S, n - 1) IN
         shorter \cup {Append(q, x) : q \in {r \in shorter : Len(r) = n - 1}, x \in S}

SubmittedMessages == SeqsUpTo(MessageLengths, MaxMessagesPerPacket + 1)

\* the errors of ValidatePacket: the rule and the number its text reports first
ValidationError(rule, n) == [rule |-> rule, n |-> n]

\* ValidatePacket's loop from message i on, totalSize being the sum so far,
\* and the size test after the loop
RECURSIVE ValidateMessages(_, _, _)
ValidateMessages(messages, i, totalSize) ==
    IF i > Len(messages)
    THEN IF totalSize > MaxPacketSizeBytes
         THEN ValidationError("PacketTooLarge", totalSize)
         ELSE NoError
    ELSE IF messages[i] > MaxLogMessageLength
         THEN ValidationError("MessageTooLong", messages[i])
         ELSE ValidateMessages(messages, i + 1, totalSize + messages[i])

\* a validator that tests the packet size before the message lengths
ValidatePacketSizeFirst(packet) ==
    IF Len(packet.Messages) = 0
    THEN ValidationError("EmptyMessages", 0)
    ELSE IF Len(packet.Messages) > MaxMessagesPerPacket
         THEN ValidationError("TooManyMessages", Len(packet.Messages))
         ELSE LET RECURSIVE Sum(_)
                  Sum(q) == IF q = <<>> THEN 0 ELSE Head(q) + Sum(Tail(q))
              IN IF Sum(packet.Messages) > MaxPacketSizeBytes
                 THEN ValidationError("PacketTooLarge", Sum(packet.Messages))
                 ELSE ValidateMessages(packet.Messages, 1, 0)

\* PacketValidator.ValidatePacket
ValidatePacket(packet) ==
    IF Len(packet.Messages) = 0
    THEN ValidationError("EmptyMessages", 0)
    ELSE IF Len(packet.Messages) > MaxMessagesPerPacket
         THEN ValidationError("TooManyMessages", Len(packet.Messages))
         ELSE ValidateMessages(packet.Messages, 1, 0)

\* SubmitPacket's errors
ValidationFailed(err) == [rule |-> "ValidationFailed", cause |-> err]
ErrQueueFull == [rule |-> "QueueFull", n |-> 0]
ErrShuttingDown == [rule |-> "ShuttingDown", n |-> 0]

\* a SubmitPacket that submits whatever the validator said
ValidationNeverRejects(err) == FALSE

\* SubmitPacket: "if err := d.validator.ValidatePacket(packet); err != nil"
ValidationRejects(err) == err # NoError

\* the pipeline variables no step of SpecSubmit changes
submitRest == <<isRunning, closed, stopPc, panicked, resultChannel, retryChannel, timers,
                tasks, pw, rw, pump, ckpt, hc, snapshot, deadLetter, submitting,
                submitBudget, submitResult, attempts, term, anomaly, lastError, lastCall,
                dlVars, persistVars, statsVars, laterVars>>

\* SubmitPacket(packet), the whole call: validation, TrackPacket, the counter,
\* and the select (sent; SubmissionTimeout with the queue full; d.ctx.Done())
SubmitPacket(messages) ==
    LET packet == [ID |-> subCalls + 1, RetryCount |-> 0, Messages |-> messages]
        err == ValidatePacket(packet)
    IN
    /\ subCalls < MaxSubmitCalls
    /\ subCalls' = subCalls + 1
    /\ subPacket' = packet
    /\ IF ValidationRejects(err)
       THEN /\ subErr' = ValidationFailed(err)
            /\ UNCHANGED <<packetMap, packetChannel, totalPacketsReceived, okSubmits,
                           saturated>>
       ELSE \/ /\ Len(packetChannel) < PacketChannelBuffer
               /\ packetChannel' = Append(packetChannel, packet)
               /\ packetMap' = TrackPacket(packetMap, packet)
               /\ totalPacketsReceived' = totalPacketsReceived + 1
               /\ okSubmits' = okSubmits + 1
               /\ subErr' = NoError
               /\ UNCHANGED saturated
            \/ /\ Len(packetChannel) >= PacketChannelBuffer
               /\ packetMap' = UntrackPacket(TrackPacket(packetMap, packet), packet.ID)
               /\ totalPacketsReceived' = totalPacketsReceived + 1
               /\ subErr' = ErrQueueFull
               /\ saturated' = TRUE
               /\ UNCHANGED <<packetChannel, okSubmits>>
            \/ /\ ctxDone
               /\ packetMap' = TrackPacket(packetMap, packet)
               /\ totalPacketsReceived' = totalPacketsReceived + 1
               /\ subErr' = ErrShuttingDown
               /\ UNCHANGED <<packetChannel, okSubmits, saturated>>
    /\ UNCHANGED <<lbVars, submitRest, ctxDone, restoredTotal>>

\* processPackets: a worker takes the packet at the head of the queue
SubmitReceive ==
    /\ packetChannel # <<>>
    /\ packetChannel' = Tail(packetChannel)
    /\ UNCHANGED <<lbVars, submitRest, ctxDone, packetMap, totalPacketsReceived, saturated,
                   submitVars>>

\* Stop: d.cancel()
SubmitCancel ==
    /\ ~ctxDone
    /\ ctxDone' = TRUE
    /\ UNCHANGED <<lbVars, submitRest, packetChannel, packetMap, totalPacketsReceived,
                   saturated, submitVars>>

\* recoverFromState of a snapshot without pending packets:
\* "d.setTotalPacketsReceived(state.TotalProcessed)"
SubmitRecover ==
    \E n \in 1..MaxRestored :
        /\ subCalls = 0
        /\ restoredTotal = 0
        /\ totalPacketsReceived' = n
        /\ restoredTotal' = n
        /\ okSubmits' = 0
        /\ UNCHANGED <<lbVars, submitRest, ctxDone, packetChannel, packetMap, saturated,
                       subPacket, subErr, subCalls>>

InitSubmit ==
    /\ InitBalancer(TestRegistry, [a \in DOMAIN TestRegistry |-> TRUE])
    /\ InitPipeline(0)
    /\ InitAux

NextSubmit ==
    \/ \E messages \in SubmittedMessages : SubmitPacket(messages)
    \/ SubmitReceive
    \/ SubmitCancel
    \/ SubmitRecover

SpecSubmit == InitSubmit /\ [][NextSubmit]_vars

\* ------------------------------------------------------------ claims on SubmitPacket
\* C11: total_packets_received counts the enqueued submissions only: it equals the
\* value restored from the snapshot plus the number of SubmitPacket calls that
\* returned nil, so a call rejected with QueueFull or ShuttingDown leaves it alone.
C11_CounterCountsEnqueued == totalPacketsReceived = restoredTotal + okSubmits

\* C12: a SubmitPacket call whose packet fails validation returns the validation
\* error and changes neither the in-flight map, nor the packets queue, nor
\* total_packets_received.
C12_InvalidPacketChangesNothing ==
    [][(subCalls' = subCalls + 1 /\ ValidatePacket(subPacket') # NoError)
         => /\ subErr' = ValidationFailed(ValidatePacket(subPacket'))
            /\ packetMap' = packetMap
            /\ packetChannel' = packetChannel
            /\ totalPacketsReceived' = totalPacketsReceived]_vars

\* an invalid packet was rejected while a packet was tracked, queued and counted
C12_Witness ==
    /\ subErr = ValidationFailed(ValidatePacket(subPacket))
    /\ ValidatePacket(subPacket) # NoError
    /\ packetMap # <<>>
    /\ packetChannel # <<>>
    /\ totalPacketsReceived > 0

\* the sum of the message lengths
RECURSIVE SumLengths(_)
SumLengths(messages) ==
    IF messages = <<>> THEN 0 ELSE Head(messages) + SumLengths(Tail(messages))

TooLong(messages) == {i \in 1..Len(messages) : messages[i] > MaxLogMessageLength}

\* what the rules require of ValidatePacket, rule by rule in their order
ExpectedValidation(messages) ==
    IF Len(messages) = 0 THEN ValidationError("EmptyMessages", 0)
    ELSE IF Len(messages) > MaxMessagesPerPacket
    THEN ValidationError("TooManyMessages", Len(messages))
    ELSE IF TooLong(messages) # {}
    THEN ValidationError("MessageTooLong",
                         messages[CHOOSE i \in TooLong(messages) :
                                      \A j \in TooLong(messages) : i <= j])
    ELSE IF SumLengths(messages) > MaxPacketSizeBytes
    THEN ValidationError("PacketTooLarge", SumLengths(messages))
    ELSE NoError

\* C13: ValidatePacket accepts exactly the packets with 1..MaxMessagesPerPacket
\* messages, each of at most MaxLogMessageLength bytes, of at most
\* MaxPacketSizeBytes bytes together, and otherwise returns the error of the first
\* violated rule in the order EmptyMessages, TooManyMessages, MessageTooLong (for
\* the first offending message), PacketTooLarge.
C13_ValidationRules ==
    LET messages == subPacket.Messages
        valid == /\ Len(messages) \in 1..MaxMessagesPerPacket
                 /\ \A i \in 1..Len(messages) : messages[i] <= MaxLogMessageLength
                 /\ SumLengths(messages) <= MaxPacketSizeBytes
    IN subCalls > 0 =>
           /\ (ValidatePacket(subPacket) = NoError) <=> valid
           /\ ValidatePacket(subPacket) = ExpectedValidation(messages)
           /\ (subErr = ValidationFailed(ValidatePacket(subPacket)))
                  <=> (ValidatePacket(subPacket) # NoError)

\* a packet that breaks both MessageTooLong (in its second message) and
\* PacketTooLarge was validated
C13_Witness ==
    /\ subCalls > 0
    /\ Len(subPacket.Messages) = 2
    /\ subPacket.Messages[1] <= MaxLogMessageLength
    /\ subPacket.Messages[2] > MaxLogMessageLength
    /\ SumLengths(subPacket.Messages) > MaxPacketSizeBytes
    /\ subErr = ValidationFailed(ValidationError("MessageTooLong", subPacket.Messages[2]))

\* ------------------------------------------------------------ the dead-letter file
\* The file is absent, empty (opened with O_TRUNC and not written yet), a JSON
\* array, or garbled (a shorter array written over a longer one).
ArrayFile(entries) == [bytes |-> "array", entries |-> entries]
EmptyFile == [bytes |-> "empty", entries |-> <<>>]
GarbledFile == [bytes |-> "garbled", entries |-> <<>>]

\* saveToDeadLetterFile: ioutil.ReadFile and json.Unmarshal into deadLetterEntries,
\* which stays nil when the file is absent or does not parse
ReadDeadLetterEntries(file) == IF file.bytes = "array" THEN file.entries ELSE <<>>

\* a rotation that waits until the file is over the cap
NeedsRotationLate(entries) == Len(entries) > maxDeadLetterEntries

\* saveToDeadLetterFile: "if len(deadLetterEntries) >= maxDeadLetterEntries"
NeedsRotation(entries) == Len(entries) >= maxDeadLetterEntries

\* saveToDeadLetterFile: "deadLetterEntries[len(deadLetterEntries)-maxDeadLetterEntries/2:]"
Rotate(entries) ==
    IF NeedsRotation(entries)
    THEN SubSeq(entries, Len(entries) - (maxDeadLetterEntries \div 2) + 1, Len(entries))
    ELSE entries

\* packets that exhaust their retries in SpecDL: enough to fill the file and
\* append to the full file
MaxDeadLetters == maxDeadLetterEntries + 1

\* the pipeline variables no step of SpecDL changes
dlRest == <<isRunning, ctxDone, closed, stopPc, panicked, packetChannel, resultChannel,
            retryChannel, timers, tasks, saturated, pw, rw, pump, ckpt, hc, snapshot,
            deadLetter, totalPacketsReceived, submitting, submitBudget, submitResult,
            attempts, term, anomaly, lastError, lastCall, submitVars, persistVars,
            statsVars, laterVars>>

\* ProcessRetries: "r.packetMap[packet.ID] = packet" for a packet on its last retry.
\* The goroutines are interchangeable: the idle one with the smallest number is
\* the one that will handle the failure of this packet.
DLTrack(w) ==
    /\ dlWriters[w].pc = "idle"
    /\ \A v \in 1..(w - 1) : dlWriters[v].pc # "idle"
    /\ dlNext < MaxDeadLetters
    /\ dlNext' = dlNext + 1
    /\ packetMap' = TrackPacket(packetMap, Packet(dlNext + 1, MaxRetries))
    /\ dlWriters' = [dlWriters EXCEPT ![w] = [IdleWriter EXCEPT !.pc = "failed",
                                                              !.id = dlNext + 1]]
    /\ UNCHANGED <<lbVars, dlRest, dlFile, dlRead, dlDone>>

\* HandleFailedPacket for that packet: no retry is left, the packet leaves the
\* map and r.mu is unlocked before saveToDeadLetterFile is called
DLHandleFailedPacket(w) ==
    LET id == dlWriters[w].id IN
    /\ dlWriters[w].pc = "failed"
    /\ id \in DOMAIN packetMap
    /\ ~CanRetry(packetMap[id])
    /\ packetMap' = UntrackPacket(packetMap, id)
    /\ dlWriters' = [dlWriters EXCEPT ![w].pc = "read"]
    /\ UNCHANGED <<lbVars, dlRest, dlFile, dlRead, dlNext, dlDone>>

\* saveToDeadLetterFile: read and parse the file, rotate, append the entry
DLReadFile(w) ==
    LET found == ReadDeadLetterEntries(dlFile) IN
    /\ dlWriters[w].pc = "read"
    /\ dlWriters' = [dlWriters EXCEPT
           ![w].pc = "open",
           ![w].found = found,
           ![w].entries = SaveToDeadLetterFile(Rotate(found),
                                               Packet(dlWriters[w].id, MaxRetries),
                                               ErrSimulated)]
    /\ UNCHANGED <<lbVars, dlRest, packetMap, dlFile, dlRead, dlNext, dlDone>>

\* ioutil.WriteFile: OpenFile with O_CREATE and O_TRUNC
DLOpenFile(w) ==
    /\ dlWriters[w].pc = "open"
    /\ dlFile' = EmptyFile
    /\ dlWriters' = [dlWriters EXCEPT ![w].pc = "write"]
    /\ UNCHANGED <<lbVars, dlRest, packetMap, dlRead, dlNext, dlDone>>

\* ioutil.WriteFile: Write from offset 0 and Close; saveToDeadLetterFile and
\* HandleFailedPacket return.  Over bytes another writer wrote meanwhile the
\* result is this array when it is at least as long, and garbage otherwise.
DLWriteFile(w) ==
    /\ dlWriters[w].pc = "write"
    /\ \/ dlFile' = ArrayFile(dlWriters[w].entries)
       \/ /\ dlFile.bytes # "empty"
          /\ dlFile' = GarbledFile
    /\ dlWriters' = [dlWriters EXCEPT ![w].pc = "idle"]
    /\ dlDone' = dlDone \cup {dlWriters[w].id}
    /\ UNCHANGED <<lbVars, dlRest, packetMap, dlRead, dlNext>>

\* Handler.GetDeadLetterPackets: os.Stat, ioutil.ReadFile, json.Unmarshal
GetDeadLetterPackets ==
    /\ dlRead' = CASE dlFile.bytes = "absent" -> [status |-> "no file", entries |-> <<>>]
                   [] dlFile.bytes = "array" -> [status |-> "ok", entries |-> dlFile.entries]
                   [] OTHER -> [status |-> "parse error", entries |-> <<>>]
    /\ dlRead' # dlRead
    /\ UNCHANGED <<lbVars, dlRest, packetMap, dlFile, dlWriters, dlNext, dlDone>>

InitDL ==
    /\ InitBalancer(TestRegistry, [a \in DOMAIN TestRegistry |-> TRUE])
    /\ InitPipeline(0)
    /\ InitAux

NextDL ==
    \/ \E w \in 1..MaxWriters : DLTrack(w)
    \/ \E w \in 1..MaxWriters : DLHandleFailedPacket(w)
    \/ \E w \in 1..MaxWriters : DLReadFile(w)
    \/ \E w \in 1..MaxWriters : DLOpenFile(w)
    \/ \E w \in 1..MaxWriters : DLWriteFile(w)
    \/ GetDeadLetterPackets

SpecDL == InitDL /\ [][NextDL]_vars

\* ------------------------------------------------------------ claims on the dead-letter file
\* ids of the packets the file holds an entry for
FileIds == {dlFile.entries[i].Packet.ID : i \in DOMAIN dlFile.entries}

AllWritersIdle == \A w \in 1..MaxWriters : dlWriters[w].pc = "idle"

\* C14: dead-letter appends are serialized: once every HandleFailedPacket call of
\* packets that exhausted their retries has returned, the file holds an entry for
\* each of them (as long as fewer packets failed than make the file rotate).
C14_NoEntryLost ==
    (AllWritersIdle /\ dlNext < maxDeadLetterEntries) => dlDone \subseteq FileIds

\* C15: the dead-letter file never holds more than maxDeadLetterEntries entries,
\* and an append that finds the file at the cap keeps the maxDeadLetterEntries / 2
\* most recent entries and adds the new one.
C15_FileWithinCap ==
    /\ Len(dlFile.entries) <= maxDeadLetterEntries
    /\ \A w \in 1..MaxWriters :
           LET found == dlWriters[w].found
               entry == [Packet |-> Packet(dlWriters[w].id, MaxRetries),
                         FinalError |-> ErrSimulated]
               half == maxDeadLetterEntries \div 2
           IN dlWriters[w].id \in dlDone \/ dlWriters[w].pc \in {"open", "write"} =>
                  /\ Len(found) <= maxDeadLetterEntries
                  /\ Len(dlWriters[w].entries) <= maxDeadLetterEntries
                  /\ dlWriters[w].entries =
                         IF Len(found) = maxDeadLetterEntries
                         THEN [i \in 1..(half + 1) |->
                                  IF i <= half THEN found[Len(found) - half + i] ELSE entry]
                         ELSE Append(found, entry)

\* an append found the file at the cap and the file now holds what it wrote
C15_Witness ==
    \E w \in 1..MaxWriters :
        /\ dlWriters[w].pc = "idle"
        /\ dlWriters[w].id \in dlDone
        /\ Len(dlWriters[w].found) = maxDeadLetterEntries
        /\ dlFile = ArrayFile(dlWriters[w].entries)
        /\ Len(dlFile.entries) = maxDeadLetterEntries \div 2 + 1

\* C16: a GetDeadLetterPackets call that runs while an append is under way reads
\* the complete array from before the append or the one from after it, never an
\* empty or partially written file.
C16_ReaderSeesCompleteArray == dlRead.status # "parse error"

\* ------------------------------------------------------------ the state file
\* A time.Time is its instant (wall) and its monotonic clock reading (mono, 0
\* when it has none); json.Marshal writes the instant as RFC 3339 text.
Time(wall, mono) == [wall |-> wall, mono |-> mono]
ZeroTime == Time(0, 0)

\* LogMessage and LogPacket as values with all their fields
LogMessage(id, timestamp, message, metadata) ==
    [ID |-> id, Timestamp |-> timestamp, Level |-> "INFO", Message |-> message,
     Source |-> "test", Metadata |-> metadata]
LogPacket(id, messages, n) == [ID |-> id, Messages |-> messages, RetryCount |-> n]

\* Analyzer with the fields a snapshot is read for
Analyzer(id, processed, errors) ==
    [ID |-> id, Name |-> "Test Analyzer", IsHealthy |-> TRUE,
     LastHealthCheck |-> Time(1, 5), ProcessedCount |-> processed, ErrorCount |-> errors]

NoMetadata == [k \in {} |-> 0]

\* the messages, packets and analyzers the saved states are built from
Messages1 == << LogMessage("msg1", ZeroTime, "test", NoMetadata) >>
Messages2 == << LogMessage("msg1", Time(1, 5), "test message", [count |-> 5]),
                LogMessage("msg2", Time(2, 9), "", NoMetadata) >>

SavedPackets ==
    {LogPacket(id, messages, n) :
        id \in 1..MaxPending, messages \in {Messages1, Messages2}, n \in {0, MaxRetries}}

SavedPending ==
    {q \in SeqsUpTo(SavedPackets, MaxPending) :
        \A i, j \in DOMAIN q : q[i].ID = q[j].ID => i = j}

SavedAnalyzers ==
    {<<>>} \cup {<<Analyzer(1, processed, errors)>> : processed, errors \in {0, MaxCount}}

SavedStates ==
    {[Analyzers |-> analyzers, PendingPackets |-> pending,
      LastCheckpoint |-> Time(3, 11), TotalProcessed |-> total] :
        analyzers \in SavedAnalyzers, pending \in SavedPending, total \in {0, MaxCount}}

\* json.Marshal and json.Unmarshal of a time.Time
MarshalTime(t) == t.wall
UnmarshalTime(text) == Time(text, 0)

\* json.Marshal of a LogMessage: "metadata,omitempty"
MarshalMessage(m) ==
    IF DOMAIN m.Metadata = {}
    THEN [id |-> m.ID, timestamp |-> MarshalTime(m.Timestamp), level |-> m.Level,
          message |-> m.Message, source |-> m.Source]
    ELSE [id |-> m.ID, timestamp |-> MarshalTime(m.Timestamp), level |-> m.Level,
          message |-> m.Message, source |-> m.Source, metadata |-> m.Metadata]

UnmarshalMessage(j) ==
    [ID |-> j.id, Timestamp |-> UnmarshalTime(j.timestamp), Level |-> j.level,
     Message |-> j.message, Source |-> j.source,
     Metadata |-> IF "metadata" \in DOMAIN j THEN j.metadata ELSE NoMetadata]

\* a marshaller that leaves retry_count out of every packet
MarshalPacketWithoutRetryCount(p) ==
    [id |-> p.ID, messages |-> [i \in DOMAIN p.Messages |-> MarshalMessage(p.Messages[i])]]

\* json.Marshal of a LogPacket: "retry_count,omitempty"
MarshalPacket(p) ==
    IF p.RetryCount = 0
    THEN [id |-> p.ID,
          messages |-> [i \in DOMAIN p.Messages |-> MarshalMessage(p.Messages[i])]]
    ELSE [id |-> p.ID,
          messages |-> [i \in DOMAIN p.Messages |-> MarshalMessage(p.Messages[i])],
          retry_count |-> p.RetryCount]

UnmarshalPacket(j) ==
    [ID |-> j.id,
     Messages |-> [i \in DOMAIN j.messages |-> UnmarshalMessage(j.messages[i])],
     RetryCount |-> IF "retry_count" \in DOMAIN j THEN j.retry_count ELSE 0]

MarshalAnalyzer(a) ==
    [id |-> a.ID, name |-> a.Name, is_healthy |-> a.IsHealthy,
     last_health_check |-> MarshalTime(a.LastHealthCheck),
     processed_count |-> a.ProcessedCount, error_count |-> a.ErrorCount]

UnmarshalAnalyzer(j) ==
    [ID |-> j.id, Name |-> j.name, IsHealthy |-> j.is_healthy,
     LastHealthCheck |-> UnmarshalTime(j.last_health_check),
     ProcessedCount |-> j.processed_count, ErrorCount |-> j.error_count]

\* json.Marshal and json.Unmarshal of a DistributorState
MarshalState(state) ==
    [analyzers |-> [k \in DOMAIN state.Analyzers |-> MarshalAnalyzer(state.Analyzers[k])],
     pending_packets |->
         [i \in DOMAIN state.PendingPackets |-> MarshalPacket(state.PendingPackets[i])],
     last_checkpoint |-> MarshalTime(state.LastCheckpoint),
     total_processed |-> state.TotalProcessed]

UnmarshalState(j) ==
    [Analyzers |-> [k \in DOMAIN j.analyzers |-> UnmarshalAnalyzer(j.analyzers[k])],
     PendingPackets |->
         [i \in DOMAIN j.pending_packets |-> UnmarshalPacket(j.pending_packets[i])],
     LastCheckpoint |-> UnmarshalTime(j.last_checkpoint),
     TotalProcessed |-> j.total_processed]

ErrOpenStateFile == "failed to open compressed state file"

\* the pipeline variables no step of SpecPersist changes
persistRest == <<pipeVars, submitVars, dlVars, statsVars, laterVars>>

\* SaveState(state): json.Marshal, os.Create, the gzip writer
SaveState ==
    /\ psFile' = [exists |-> TRUE, gzip |-> MarshalState(psState)]
    /\ psFile' # psFile
    /\ UNCHANGED <<lbVars, persistRest, psState, psRecovered>>

\* RecoverState(): os.Open, the gzip reader, json.Unmarshal
RecoverState ==
    /\ psRecovered' = IF psFile.exists
                      THEN [err |-> "nil", state |-> UnmarshalState(psFile.gzip)]
                      ELSE [err |-> ErrOpenStateFile, state |-> NoState]
    /\ psRecovered' # psRecovered
    /\ UNCHANGED <<lbVars, persistRest, psState, psFile>>

InitPersist ==
    /\ InitBalancer(TestRegistry, [a \in DOMAIN TestRegistry |-> TRUE])
    /\ InitPipeline(0)
    /\ InitSubmitVars
    /\ InitDLVars
    /\ InitStatsVars
    /\ InitLaterVars
    /\ psState \in SavedStates
    /\ psFile = NoStateFile
    /\ psRecovered = NotRecovered

NextPersist == SaveState \/ RecoverState

SpecPersist == InitPersist /\ [][NextPersist]_vars

\* ------------------------------------------------------------ claims on the state file
\* two messages, packets, analyzers with the same content (times as instants)
SameMessage(m, n) ==
    /\ m.ID = n.ID /\ m.Level = n.Level /\ m.Message = n.Message /\ m.Source = n.Source
    /\ m.Timestamp.wall = n.Timestamp.wall
    /\ m.Metadata = n.Metadata

SamePacket(p, q) ==
    /\ p.ID = q.ID
    /\ p.RetryCount = q.RetryCount
    /\ Len(p.Messages) = Len(q.Messages)
    /\ \A i \in DOMAIN p.Messages : SameMessage(p.Messages[i], q.Messages[i])

SameState(s, t) ==
    /\ Len(s.PendingPackets) = Len(t.PendingPackets)
    /\ \A i \in DOMAIN s.PendingPackets : SamePacket(s.PendingPackets[i], t.PendingPackets[i])
    /\ s.TotalProcessed = t.TotalProcessed
    /\ DOMAIN s.Analyzers = DOMAIN t.Analyzers
    /\ \A k \in DOMAIN s.Analyzers :
           /\ s.Analyzers[k].ID = t.Analyzers[k].ID
           /\ s.Analyzers[k].ProcessedCount = t.Analyzers[k].ProcessedCount
           /\ s.Analyzers[k].ErrorCount = t.Analyzers[k].ErrorCount

\* C17: SaveState followed by RecoverState returns a state equal to the saved one
\* (same pending packets with ids, messages and retry_count, same total counter,
\* same analyzer counters); RecoverState without a state file returns an error
\* and no state.
C17_SaveRecoverRoundTrip ==
    [][(psRecovered' # psRecovered) =>
          IF psFile.exists
          THEN /\ psFile = [exists |-> TRUE, gzip |-> MarshalState(psState)] =>
                      (psRecovered'.err = "nil" /\ SameState(psRecovered'.state, psState))
          ELSE /\ psRecovered'.err # "nil"
               /\ psRecovered'.state = NoState]_vars

\* a state with two pending packets, one of them never retried, was saved and
\* recovered
C17_Witness ==
    /\ psRecovered.err = "nil"
    /\ psFile.exists
    /\ Len(psState.PendingPackets) = 2
    /\ \E i, j \in DOMAIN psState.PendingPackets :
           /\ psState.PendingPackets[i].RetryCount = 0
           /\ psState.PendingPackets[j].RetryCount = MaxRetries
           /\ Len(psState.PendingPackets[j].Messages) = 2
    /\ psRecovered.state # psState
    /\ SameState(psRecovered.state, psState)

\* ------------------------------------------------------------ counters, recovery and GetStats
\* createDistributor hands one analyzers map to NewLoadBalancer and
\* NewHealthMonitor; NewDistributor builds d.analyzers, with the same ids, in
\* initializeAnalyzers.  SelectAnalyzer returns analyzers of the first map, and
\* getState, recoverFromState and GetStats read the second.

\* the snapshots a new instance may find at Start
RecoveredAnalyzers ==
    {[k \in K |-> Analyzer(k, MaxCount, 1)] : K \in {{}, {1}, {1, 3}}}

RecoveredPending ==
    {q \in SavedPending :
        \A i \in DOMAIN q : /\ q[i].Messages = Messages1
                             /\ q[i].RetryCount = IF q[i].ID = 1 THEN 0 ELSE MaxRetries}

RecoveredStates ==
    {[Analyzers |-> analyzers, PendingPackets |-> pending,
      LastCheckpoint |-> Time(3, 11), TotalProcessed |-> total] :
        analyzers \in RecoveredAnalyzers, pending \in RecoveredPending,
        total \in {0, MaxCount}}

\* recoverFromState: "atomic.AddInt64(&existing.ProcessedCount, analyzer.ProcessedCount)"
\* for the ids of the snapshot that d.analyzers has
MergeCounters(counts, saved) ==
    [a \in DOMAIN counts |-> IF a \in DOMAIN saved THEN counts[a] + saved[a] ELSE counts[a]]

\* "atomic.AddInt64(&analyzer.ProcessedCount, 1)" counting twice
IncrementTwice(counts, a) == [counts EXCEPT ![a] = @ + 2]

\* ProcessPacket: "atomic.AddInt64(&analyzer.ProcessedCount, 1)", and the same for ErrorCount
Increment(counts, a) == [counts EXCEPT ![a] = @ + 1]

\* the pipeline variables no step of SpecStats changes
statsRest == <<ctxDone, closed, stopPc, panicked, resultChannel, retryChannel, timers, tasks,
               snapshot, deadLetter, submitting, submitBudget, submitResult, attempts, term,
               anomaly, lastError, submitVars, dlVars, psState, psFile, laterVars>>

\* Start on a new instance: RecoverState, recoverFromState, the go statements
StartOnNewInstance ==
    LET recovered == IF psFile.exists
                     THEN [err |-> "nil", state |-> UnmarshalState(psFile.gzip)]
                     ELSE [err |-> ErrOpenStateFile, state |-> NoState]
        state == recovered.state
        savedProcessed == [k \in DOMAIN state.Analyzers |-> state.Analyzers[k].ProcessedCount]
        savedErrors == [k \in DOMAIN state.Analyzers |-> state.Analyzers[k].ErrorCount]
    IN
    /\ ~StartRefused
    /\ lastCall.op = "none"
    /\ isRunning' = TRUE
    /\ lastCall' = Call("Start", "ok")
    /\ psRecovered' = recovered
    /\ IF recovered.err # "nil"
       THEN UNCHANGED <<dProcessed, dErrors, merged, packetMap, packetChannel,
                        totalPacketsReceived, saturated>>
       ELSE /\ dProcessed' = MergeCounters(dProcessed, savedProcessed)
            /\ dErrors' = MergeCounters(dErrors, savedErrors)
            /\ merged' = merged + SumOver(savedProcessed, DOMAIN savedProcessed \cap Analyzers)
                                + SumOver(savedErrors, DOMAIN savedErrors \cap Analyzers)
            /\ packetMap' = RecoverTracked(packetMap, state.PendingPackets)
            /\ packetChannel' = RecoverQueue(packetChannel, state.PendingPackets)
            /\ totalPacketsReceived' = state.TotalProcessed
            /\ saturated' = (saturated \/ Len(packetChannel) + Len(state.PendingPackets)
                                             > PacketChannelBuffer)
    /\ pw' = [w \in 1..PacketWorkers |-> [st |-> "spawned"]]
    /\ rw' = [w \in 1..PacketWorkers |-> "spawned"]
    /\ pump' = [st |-> "spawned"]
    /\ ckpt' = "spawned"
    /\ hc' = "spawned"
    /\ UNCHANGED <<lbVars, statsRest, dHealthy, lbProcessed, lbErrors, outcomes, stats,
                   statsCalls>>

\* ProcessPacket(analyzer, packet) for an analyzer SelectAnalyzer returned
ProcessPacket(a, success) ==
    /\ isRunning
    /\ SumOver([x \in Analyzers |-> outcomes[x].ok + outcomes[x].failed], Analyzers)
           < MaxProcessed
    /\ IF success
       THEN /\ lbProcessed' = Increment(lbProcessed, a)
            /\ outcomes' = [outcomes EXCEPT ![a].ok = @ + 1]
            /\ UNCHANGED lbErrors
       ELSE /\ lbErrors' = Increment(lbErrors, a)
            /\ outcomes' = [outcomes EXCEPT ![a].failed = @ + 1]
            /\ UNCHANGED lbProcessed
    /\ UNCHANGED <<lbVars, statsRest, isRunning, lastCall, psRecovered, packetMap,
                   packetChannel, totalPacketsReceived, saturated, pw, rw, pump, ckpt, hc,
                   dProcessed, dErrors, dHealthy, merged, stats, statsCalls>>

\* GetStats
GetStats ==
    /\ statsCalls < MaxStatsCalls
    /\ statsCalls' = statsCalls + 1
    /\ stats' = [TotalPacketsReceived |-> totalPacketsReceived,
                 ActiveAnalyzers |-> Cardinality({a \in DOMAIN dHealthy : dHealthy[a]}),
                 AnalyzerStats |->
                     [a \in DOMAIN dHealthy |->
                         [IsHealthy |-> dHealthy[a], ProcessedCount |-> dProcessed[a],
                          ErrorCount |-> dErrors[a]]],
                 PacketChannelUtil |-> (Len(packetChannel) * 100) \div PacketChannelBuffer]
    /\ UNCHANGED <<lbVars, statsRest, isRunning, lastCall, psRecovered, packetMap,
                   packetChannel, totalPacketsReceived, saturated, pw, rw, pump, ckpt, hc,
                   dProcessed, dErrors, dHealthy, lbProcessed, lbErrors, outcomes, merged>>

InitStats ==
    /\ InitBalancer(HalfRegistry, [a \in DOMAIN HalfRegistry |-> TRUE])
    /\ InitPipeline(0)
    /\ InitSubmitVars
    /\ InitDLVars
    /\ InitStatsVars
    /\ InitLaterVars
    /\ psState = NoState
    /\ psFile \in {NoStateFile}
                  \cup {[exists |-> TRUE, gzip |-> MarshalState(s)] : s \in RecoveredStates}
    /\ psRecovered = NotRecovered

\* the health checker Start launched: a probe, and onHealthChange
StatsProbe == isRunning /\ LBProbe
StatsOnHealthChange == isRunning /\ LBOnHealthChange

NextStats ==
    \/ StartOnNewInstance
    \/ \E a \in Analyzers, success \in BOOLEAN : ProcessPacket(a, success)
    \/ GetStats
    \/ StatsProbe
    \/ StatsOnHealthChange

SpecStats == InitStats /\ [][NextStats]_vars

\* ------------------------------------------------------------ claims on recovery and counters
\* C18: after Start on a new instance with a recoverable snapshot s, every packet
\* of s.pending is in the in-flight map with its saved retry_count,
\* total_packets_received is the snapshot's counter, every live analyzer with a
\* matching id has its two counters increased by the snapshot's values, and a
\* pending packet is on the packets queue exactly if the queue had room when it
\* was tried.
C18_RecoveryOnStart ==
    [][(isRunning' /\ ~isRunning /\ psRecovered'.err = "nil") =>
          LET s == psRecovered'.state IN
          /\ \A i \in DOMAIN s.PendingPackets :
                 LET p == s.PendingPackets[i] IN
                 /\ p.ID \in DOMAIN packetMap'
                 /\ packetMap'[p.ID].RetryCount = p.RetryCount
                 /\ (\E j \in DOMAIN packetChannel' : packetChannel'[j].ID = p.ID)
                        <=> (Len(packetChannel) + i - 1 < PacketChannelBuffer)
          /\ totalPacketsReceived' = s.TotalProcessed
          /\ \A a \in Analyzers :
                 IF a \in DOMAIN s.Analyzers
                 THEN /\ dProcessed'[a] = dProcessed[a] + s.Analyzers[a].ProcessedCount
                      /\ dErrors'[a] = dErrors[a] + s.Analyzers[a].ErrorCount
                 ELSE /\ dProcessed'[a] = dProcessed[a]
                      /\ dErrors'[a] = dErrors[a]]_vars

\* a snapshot with more pending packets than the queue holds, counters for a
\* live and for an unknown analyzer, was recovered
C18_Witness ==
    /\ isRunning
    /\ psRecovered.err = "nil"
    /\ Len(psRecovered.state.PendingPackets) > PacketChannelBuffer
    /\ Len(packetChannel) = PacketChannelBuffer
    /\ DOMAIN packetMap = {psRecovered.state.PendingPackets[i].ID :
                              i \in DOMAIN psRecovered.state.PendingPackets}
    /\ \E i \in DOMAIN psRecovered.state.PendingPackets :
           psRecovered.state.PendingPackets[i].RetryCount = MaxRetries
    /\ DOMAIN psRecovered.state.Analyzers = {1, 3}
    /\ dProcessed[1] = MaxCount
    /\ totalPacketsReceived = MaxCount

\* every analyzer object: those of d.analyzers and those the balancer selects
AllCounters ==
    SumOver(dProcessed, Analyzers) + SumOver(dErrors, Analyzers)
        + SumOver(lbProcessed, Analyzers) + SumOver(lbErrors, Analyzers)

Completed == SumOver([a \in Analyzers |-> outcomes[a].ok + outcomes[a].failed], Analyzers)

C20_StatsDescribeDispatchedAnalyzers ==
    [][(statsCalls' = statsCalls + 1) =>
          /\ \A a \in Analyzers : stats'.AnalyzerStats[a].ProcessedCount >= outcomes[a].ok
          /\ stats'.ActiveAnalyzers = Cardinality(HealthyAnalyzers)]_vars

\* ------------------------------------------------------------ the retry handler, call by call
\* SubmitLogs binds the request body to []models.LogPacket, "retry_count"
\* included, and ValidatePacket reads the messages only: a caller submits a
\* packet with any RetryCount
SubmittedRetryCounts == {-1, 0, MaxRetries + 1}

\* a backoff that doubles with every retry
BackoffDurationDoubling(n) == BaseRetryDelay * RetryBackoffFactor ^ n

\* HandleFailedPacket, in seconds:
\* "time.Duration(packet.RetryCount*config.RetryBackoffFactor) * config.BaseRetryDelay"
BackoffDuration(n) == n * RetryBackoffFactor * BaseRetryDelay

\* the variables no step of SpecRetry changes
retryRest == <<originalWeights, isHealthy, hcTodo, healthChanged, hcNotify, hcTicks, lbCalls,
               nSel, selCount, isRunning, ctxDone, closed, stopPc, panicked, resultChannel,
               pw, rw, pump, ckpt, hc, submitting, submitBudget, submitResult, lastCall,
               submitVars, dlVars, persistVars, statsVars, lockVars, flowVars, snapVars,
               trackVars>>

\* SubmitPacket(packet), the whole call, for a packet that passes validation:
\* TrackPacket, the counter, and the select (sent, or SubmissionTimeout with the
\* queue full and UntrackPacket)
RetrySubmitPacket ==
    \E id \in PacketIds, n \in SubmittedRetryCounts :
        LET packet == Packet(id, n) IN
        /\ rtSubmits < MaxSubmitCalls
        /\ rtSubmits' = rtSubmits + 1
        /\ totalPacketsReceived' = totalPacketsReceived + 1
        /\ IF Len(packetChannel) < PacketChannelBuffer
           THEN /\ packetChannel' = Append(packetChannel, packet)
                /\ packetMap' = TrackPacket(packetMap, packet)
                /\ UNCHANGED saturated
           ELSE /\ packetMap' = UntrackPacket(TrackPacket(packetMap, packet), id)
                /\ saturated' = TRUE
                /\ UNCHANGED packetChannel
        /\ UNCHANGED <<retryRest, currentWeights, lastSelected, lastSelectable, lastInHealthy,
                       lastSmallest, retryChannel, timers, tasks, snapshot, deadLetter,
                       attempts, term, anomaly, lastError, rtCall>>

\* processPackets and distributePacket: a worker receives the packet at the head
\* of the queue, SelectAnalyzer picks the analyzer (the one analyzer of
\* TestRegistry stays healthy), "go d.sendToAnalyzer(selectedAnalyzer, packet)"
RetryDistributePacket ==
    \E sel \in Analyzers :
        /\ packetChannel # <<>>
        /\ packetChannel' = Tail(packetChannel)
        /\ SelectAnalyzer(sel)
        /\ tasks' = tasks (+) SetToBag({Task(Head(packetChannel), sel)})
        /\ UNCHANGED <<retryRest, retryChannel, packetMap, timers, saturated, snapshot,
                       deadLetter, totalPacketsReceived, attempts, term, anomaly,
                       lastError, retryVars>>

\* sendToAnalyzer and processResults: the task's result reaches a result worker,
\* which untracks the packet or calls HandleFailedPacket; rtCall keeps what the
\* call was given and the retry it scheduled
RetryProcessResult ==
    \E t \in BagToSet(tasks), success \in BOOLEAN :
        /\ tasks' = tasks (-) SetToBag({t})
        /\ IF success
           THEN /\ packetMap' = UntrackPacket(packetMap, t.ID)
                /\ NoteTerminal(t.ID, "success")
                /\ UNCHANGED <<timers, deadLetter, lastError, rtCall>>
           ELSE /\ HandleFailedPacket(AnalysisResult(t.ID, t.AnalyzerID, FALSE, ErrSimulated))
                /\ rtCall' = IF timers' # timers
                             THEN [id |-> t.ID, seq |-> 1 - rtCall.seq, scheduled |-> TRUE,
                                   retry |-> packetMap'[t.ID].RetryCount,
                                   delay |-> BackoffDuration(packetMap'[t.ID].RetryCount)]
                             ELSE [id |-> t.ID, seq |-> 1 - rtCall.seq, scheduled |-> FALSE,
                                   retry |-> 0, delay |-> 0]
        /\ UNCHANGED <<retryRest, currentWeights, lastSelected, lastSelectable, lastInHealthy,
                       lastSmallest, packetChannel, retryChannel, saturated, snapshot,
                       totalPacketsReceived, attempts, rtSubmits>>

\* ProcessRetries, one iteration: the receive, the map update and the inner
\* select (sent, or SubmissionTimeout with the queue full)
RetryProcessRetries ==
    /\ retryChannel # <<>>
    /\ retryChannel' = Tail(retryChannel)
    /\ packetMap' = TrackPacket(packetMap, Head(retryChannel))
    /\ IF Len(packetChannel) < PacketChannelBuffer
       THEN packetChannel' = Append(packetChannel, Head(retryChannel)) /\ UNCHANGED saturated
       ELSE saturated' = TRUE /\ UNCHANGED packetChannel
    /\ UNCHANGED <<retryRest, currentWeights, lastSelected, lastSelectable, lastInHealthy,
                   lastSmallest, timers, tasks, snapshot, deadLetter, totalPacketsReceived,
                   attempts, term, anomaly, lastError, retryVars>>

InitRetry ==
    /\ InitBalancer(TestRegistry, [a \in DOMAIN TestRegistry |-> TRUE])
    /\ InitPipeline(0)
    /\ InitAux

NextRetry ==
    \/ RetrySubmitPacket
    \/ RetryDistributePacket
    \/ RetryProcessResult
    \/ TimerFire
    \/ RetryProcessRetries

SpecRetry == InitRetry /\ [][NextRetry]_vars

\* ------------------------------------------------------------ claims on the retry handler
\* C21: in every reachable state every packet in the in-flight map has
\* 0 <= retry_count <= MaxRetries, whatever packets SubmitPacket accepted and
\* whatever packets were tracked again.
C21_RetryCountInRange ==
    \A id \in DOMAIN packetMap : packetMap[id].RetryCount \in 0..MaxRetries

\* C24: the delay before the n-th retry of a packet (n the retry count after the
\* increment, 1 <= n <= MaxRetries) is n * RetryBackoffFactor * BaseRetryDelay:
\* 4s, 8s and 12s with the stock constants.
StockDelays == <<4, 8, 12>>

C25_ExponentialBackoff ==
    /\ (rtCall.scheduled /\ rtCall.retry \in 1..MaxRetries) =>
           rtCall.delay = BaseRetryDelay * 2 ^ (rtCall.retry - 1)
    /\ rtCall.scheduled => rtCall.retry <= MaxRetries
    /\ \A i \in 1..Len(deadLetter) : deadLetter[i].Packet.RetryCount >= MaxRetries

\* C27: HandleFailedPacket for a tracked packet with retry_count < MaxRetries
\* adds exactly one to the stored retry_count, keeps the packet in the in-flight
\* map, schedules exactly one delayed enqueue of the updated packet (nothing
\* reaches the retries queue yet) and writes nothing to the dead-letter store;
\* for a packet id that is not tracked it changes no state.
C27_RetryStep ==
    [][rtCall'.seq # rtCall.seq =>
         LET id == rtCall'.id IN
         /\ (id \in DOMAIN packetMap /\ packetMap[id].RetryCount < MaxRetries) =>
                /\ id \in DOMAIN packetMap'
                /\ packetMap' = [packetMap EXCEPT ![id].RetryCount = @ + 1]
                /\ timers' = timers (+) SetToBag({packetMap'[id]})
                /\ retryChannel' = retryChannel
                /\ deadLetter' = deadLetter
         /\ id \notin DOMAIN packetMap =>
                /\ packetMap' = packetMap
                /\ timers' = timers
                /\ retryChannel' = retryChannel
                /\ packetChannel' = packetChannel
                /\ deadLetter' = deadLetter
                /\ totalPacketsReceived' = totalPacketsReceived]_vars

\* a failure of a tracked packet scheduled its retry while an earlier retry of
\* the packet was waiting in the retries queue
C27_Witness ==
    /\ rtCall.scheduled
    /\ rtCall.id \in DOMAIN packetMap
    /\ packetMap[rtCall.id].RetryCount = rtCall.retry
    /\ BagCardinality(timers) = 1
    /\ retryChannel # <<>>
    /\ deadLetter = <<>>

\* ------------------------------------------------------------ claims on cancellation
\* C22: a SubmitPacket call that is inside its select when the root context is
\* cancelled, or that starts after the cancellation, returns the ShuttingDown
\* error: it never returns ok and never places its packet on the packets queue.
C22_SubmitAfterCancelShutsDown ==
    [][\A id \in submitting :
           (ctxDone /\ id \notin submitting') =>
               /\ submitResult'[id] = "ShuttingDown"
               /\ packetChannel' = packetChannel]_vars

\* C23: when Stop cancels the root context every pending retry timer is
\* cancelled with it: no timer sends its packet to the retries queue after the
\* cancellation, and no timer is left once Stop has returned.
C23_TimersCancelledByStop ==
    [][ctxDone =>
           /\ Len(retryChannel') <= Len(retryChannel)
           /\ closed' => timers' = EmptyBag]_vars

\* C26: on each health tick the monitor probes every analyzer and invokes
\* onHealthChange exactly once if some healthy flag changed during the tick and
\* not at all if none changed (a flip makes the callback due at the end of its
\* tick, the callback is due at the end of a tick only after a flip, and it runs
\* before the next tick starts); after the cancellation no tick is processed
\* and the callback is never invoked again.
C26_CallbackOncePerChangedTick ==
    [][/\ isHealthy' # isHealthy => healthChanged' /\ (hcTodo' = {} => hcNotify')
       /\ (hcNotify' /\ ~hcNotify) => healthChanged'
       /\ hcNotify => isHealthy' = isHealthy
       /\ ctxDone => /\ isHealthy' = isHealthy
                     /\ ~(hcNotify /\ ~hcNotify')]_vars

\* ------------------------------------------------------------ claims on the balancer's weights
\* C28: a SelectAnalyzer call with healthy set H and W the sum of the original
\* weights over H that returns analyzer j leaves current[j] = old current[j] +
\* original[j] - W and current[i] = old current[i] + original[i] for every other
\* i in H, so the sum of current over H is unchanged; it leaves current[i] as it
\* was for every analyzer outside H and never changes original; a call that
\* returns no selection changes no weight.
C28_SelectFrame ==
    [][lbCalls' = lbCalls + 1 =>
          LET H == HealthyAnalyzers
              W == TotalWeight(H)
              j == lastSelected'
          IN  /\ originalWeights' = originalWeights
              /\ j = Nil => currentWeights' = currentWeights
              /\ j # Nil =>
                     /\ \A i \in Analyzers :
                            currentWeights'[i] =
                                IF i = j THEN currentWeights[i] + originalWeights[i] - W
                                ELSE IF i \in H THEN currentWeights[i] + originalWeights[i]
                                ELSE currentWeights[i]
                     /\ SumOver(currentWeights', H) = SumOver(currentWeights, H)]_vars

\* ------------------------------------------------------------ the balancer's mutex
\* a Lock that never waits
MutexIgnored(mu) == TRUE

\* lb.mu.Lock() returns once the mutex is free
MutexAvailable(mu) == mu = "free"

\* the variables no step of SpecLock changes
lockRest == <<originalWeights, lastSelectable, lastInHealthy, lastSmallest, pipeVars,
              submitVars, dlVars, persistVars, statsVars, retryVars, flowVars, snapVars,
              trackVars>>

\* a worker calls SelectAnalyzer: it waits in lb.mu.Lock()
LockSelectCall(w) ==
    /\ selPc[w].pc = "idle"
    /\ lbCalls < MaxLockSelects
    /\ lbCalls' = lbCalls + 1
    /\ selPc' = [selPc EXCEPT ![w] = [pc |-> "lock", todo |-> {}, H |-> {}]]
    /\ UNCHANGED <<lockRest, currentWeights, isHealthy, hcTodo, healthChanged, hcNotify,
                   lastSelected, hcTicks, nSel, selCount, lbMu, updPc, rejoined>>

\* SelectAnalyzer: lb.mu.Lock()
LockSelectLock(w) ==
    /\ selPc[w].pc = "lock"
    /\ MutexAvailable(lbMu)
    /\ lbMu' = "SelectAnalyzer"
    /\ selPc' = [selPc EXCEPT ![w] = [pc |-> "read", todo |-> Analyzers, H |-> {}]]
    /\ UNCHANGED <<lockRest, currentWeights, isHealthy, hcTodo, healthChanged, hcNotify,
                   lastSelected, hcTicks, lbCalls, nSel, selCount, updPc, rejoined>>

\* SelectAnalyzer, first loop: one analyzer's IsHealthy is read (in map order,
\* that is in any order; the monitor writes the flags without lb.mu); after the
\* last one, the early return when nothing is selectable
LockSelectRead(w) ==
    \E a \in selPc[w].todo :
        LET H == IF isHealthy[a] THEN selPc[w].H \cup {a} ELSE selPc[w].H
            last == selPc[w].todo = {a}
        IN
        /\ selPc[w].pc = "read"
        /\ selPc' = [selPc EXCEPT ![w] =
                        [pc |-> IF ~last THEN "read"
                                ELSE IF H = {} \/ TotalWeight(H) = 0 THEN "unlock"
                                ELSE "bump",
                         todo |-> selPc[w].todo \ {a}, H |-> H]]
        /\ lastSelected' = IF last /\ (H = {} \/ TotalWeight(H) = 0) THEN Nil
                           ELSE lastSelected
        /\ UNCHANGED <<lockRest, currentWeights, isHealthy, hcTodo, healthChanged, hcNotify,
                       hcTicks, lbCalls, nSel, selCount, lbMu, updPc, rejoined>>

\* SelectAnalyzer, second loop: the current weights of the analyzers read as
\* healthy grow by their original weights
LockSelectBump(w) ==
    /\ selPc[w].pc = "bump"
    /\ currentWeights' = Bumped(selPc[w].H)
    /\ rejoined' = rejoined \ selPc[w].H
    /\ selPc' = [selPc EXCEPT ![w].pc = "pick"]
    /\ UNCHANGED <<lockRest, isHealthy, hcTodo, healthChanged, hcNotify, lastSelected,
                   hcTicks, lbCalls, nSel, selCount, lbMu, updPc>>

\* SelectAnalyzer, third loop and the decrement
LockSelectPick(w) ==
    \E sel \in Analyzers \cup {Nil} :
        LET H == selPc[w].H
            C == MaxCandidates(currentWeights, H)
        IN
        /\ selPc[w].pc = "pick"
        /\ IF C = {}
           THEN sel = Nil /\ UNCHANGED currentWeights
           ELSE sel \in C /\ currentWeights' = [currentWeights EXCEPT ![sel] = @ - TotalWeight(H)]
        /\ lastSelected' = sel
        /\ selPc' = [selPc EXCEPT ![w].pc = "unlock"]
        /\ UNCHANGED <<lockRest, isHealthy, hcTodo, healthChanged, hcNotify, hcTicks,
                       lbCalls, nSel, selCount, lbMu, updPc, rejoined>>

\* SelectAnalyzer: "defer lb.mu.Unlock()"
LockSelectUnlock(w) ==
    /\ selPc[w].pc = "unlock"
    /\ lbMu' = "free"
    /\ selPc' = [selPc EXCEPT ![w] = IdleSelect]
    /\ UNCHANGED <<lockRest, currentWeights, isHealthy, hcTodo, healthChanged, hcNotify,
                   lastSelected, hcTicks, lbCalls, nSel, selCount, updPc, rejoined>>

\* healthChecker: one iteration of checkAnalyzerHealth's loop; the goroutine
\* that runs the ticks also runs the callback, so no probe runs during it
LockProbe ==
    \E a \in Analyzers, v \in BOOLEAN :
        /\ updPc = "idle"
        /\ hcTodo = {} => hcTicks < MaxLockTicks
        /\ hcTicks' = IF hcTodo = {} THEN hcTicks + 1 ELSE hcTicks
        /\ ProbeAnalyzer(a, v)
        /\ rejoined' = IF v /\ ~isHealthy[a] THEN rejoined \cup {a}
                        ELSE IF ~v THEN rejoined \ {a}
                        ELSE rejoined
        /\ UNCHANGED <<lockRest, currentWeights, lastSelected, lbCalls, nSel, selCount, lbMu,
                       selPc, updPc>>

\* onHealthChange: UpdateWeights is called and waits in lb.mu.Lock()
LockUpdateLock ==
    /\ hcNotify
    /\ updPc = "idle"
    /\ MutexAvailable(lbMu)
    /\ lbMu' = "UpdateWeights"
    /\ updPc' = "reset"
    /\ UNCHANGED <<lockRest, currentWeights, isHealthy, hcTodo, healthChanged, hcNotify,
                   lastSelected, hcTicks, lbCalls, nSel, selCount, selPc, rejoined>>

\* UpdateWeights: the loop
LockUpdateReset ==
    /\ updPc = "reset"
    /\ UpdateWeights
    /\ updPc' = "unlock"
    /\ UNCHANGED <<lockRest, isHealthy, hcTodo, healthChanged, hcNotify, lastSelected,
                   hcTicks, lbCalls, lbMu, selPc, rejoined>>

\* UpdateWeights: "defer lb.mu.Unlock()", and the callback returns
LockUpdateUnlock ==
    /\ updPc = "unlock"
    /\ lbMu' = "free"
    /\ updPc' = "idle"
    /\ hcNotify' = FALSE
    /\ UNCHANGED <<lockRest, currentWeights, isHealthy, hcTodo, healthChanged, lastSelected,
                   hcTicks, lbCalls, nSel, selCount, selPc, rejoined>>

\* TestLoadBalancer_WeightedSelection: 0.6, 0.4
WeightedRegistry == <<6, 4>>

\* the two-analyzer registries of the balancer's tests
LockRegistries == {HalfRegistry, WeightedRegistry}

InitLock ==
    /\ \E registry \in LockRegistries :
           InitBalancer(registry, [a \in DOMAIN registry |-> TRUE])
    /\ InitPipeline(0)
    /\ InitAux

NextLock ==
    \/ \E w \in 1..MaxSelectors : LockSelectCall(w)
    \/ \E w \in 1..MaxSelectors : LockSelectLock(w)
    \/ \E w \in 1..MaxSelectors : LockSelectRead(w)
    \/ \E w \in 1..MaxSelectors : LockSelectBump(w)
    \/ \E w \in 1..MaxSelectors : LockSelectPick(w)
    \/ \E w \in 1..MaxSelectors : LockSelectUnlock(w)
    \/ LockProbe
    \/ LockUpdateLock
    \/ LockUpdateReset
    \/ LockUpdateUnlock

SpecLock == InitLock /\ [][NextLock]_vars

\* a SelectAnalyzer call is between its Lock and its Unlock
InSelect(w) == selPc[w].pc \in {"read", "bump", "pick", "unlock"}

\* C29: UpdateWeights sets current[i] = original[i] for every analyzer that is
\* healthy at that moment and leaves current[i] of every unhealthy analyzer and
\* all original weights unchanged; SelectAnalyzer and UpdateWeights never
\* interleave: while one holds the balancer no other call is inside it.
C29_UpdateWeightsFrame ==
    /\ [](/\ \A w \in 1..MaxSelectors : ~(InSelect(w) /\ updPc # "idle")
          /\ \A v, w \in 1..MaxSelectors : (InSelect(v) /\ InSelect(w)) => v = w)
    /\ [][(updPc = "reset" /\ updPc' = "unlock") =>
             /\ \A i \in Analyzers :
                    currentWeights'[i] = IF isHealthy[i] THEN originalWeights[i]
                                         ELSE currentWeights[i]
             /\ originalWeights' = originalWeights]_vars

\* UpdateWeights has reset a healthy analyzer and left an unhealthy one at a
\* weight SelectAnalyzer gave it, while a SelectAnalyzer call waits for the mutex
C29_Witness ==
    /\ updPc = "unlock"
    /\ \E w \in 1..MaxSelectors : selPc[w].pc = "lock"
    /\ \E i, j \in Analyzers :
           /\ isHealthy[i] /\ currentWeights[i] = originalWeights[i]
           /\ ~isHealthy[j] /\ currentWeights[j] # originalWeights[j]

\* C30: an analyzer that recovers is not favored: the first SelectAnalyzer call
\* that treats it as healthy after its flag went from false to true reads
\* current[i] equal to original[i], never the weight left from before the
\* analyzer became unhealthy.
C30_RecoveredStartsFromOriginal ==
    [][\A w \in 1..MaxSelectors :
           (selPc[w].pc = "bump" /\ selPc'[w].pc = "pick") =>
               \A i \in selPc[w].H \cap rejoined :
                   currentWeights[i] = originalWeights[i]]_vars

\* ------------------------------------------------------------ claims on dispatch accounting
\* the sendToAnalyzer goroutines running for a packet, and its results waiting
\* in the results queue
TasksFor(id) ==
    LET RECURSIVE Count(_)
        Count(S) == IF S = {} THEN 0
                    ELSE LET t == CHOOSE x \in S : TRUE
                         IN  (IF t.ID = id THEN CopiesIn(t, tasks) ELSE 0) + Count(S \ {t})
    IN  Count(BagToSet(tasks))

ResultsFor(id) == Cardinality({i \in DOMAIN resultChannel : resultChannel[i].PacketID = id})

\* C31: every dispatch of a packet is accounted for by exactly one handling
\* step.  The step that ends a sendToAnalyzer goroutine either puts its result
\* on the results queue and handles nothing, or hands a synthesized failure
\* (shutdown, result timeout) to HandleFailedPacket and queues nothing; a result
\* leaves the results queue only by the result worker's step, which untracks on
\* success and else calls HandleFailedPacket; and every queued result is
\* consumed.
C31_DispatchHandledOnce ==
    /\ [][\A id \in PacketIds :
            /\ TasksFor(id)' < TasksFor(id) =>
                   \/ /\ ResultsFor(id)' = ResultsFor(id) + 1
                      /\ UNCHANGED <<packetMap, timers, deadLetter, lastError>>
                   \/ /\ resultChannel' = resultChannel
                      /\ lastError'[id] \in {ErrShutdown, ErrTimeout}
                      /\ \/ id \notin DOMAIN packetMap'
                         \/ packetMap'[id].RetryCount = packetMap[id].RetryCount + 1
            /\ ResultsFor(id)' < ResultsFor(id) =>
                   /\ TasksFor(id)' = TasksFor(id)
                   /\ \/ id \notin DOMAIN packetMap'
                      \/ packetMap'[id].RetryCount = packetMap[id].RetryCount + 1]_vars
    /\ \A id \in PacketIds : (ResultsFor(id) > 0) ~> (ResultsFor(id) = 0)

\* ------------------------------------------------------------ one running instance, two packets
FlowIds == 1..MaxFlowPackets

\* the state file Start finds: none, or the pending packets an earlier run saved
\* (one packet, or one more than the packets queue holds)
RECURSIVE PendingUpTo(_)
PendingUpTo(n) == IF n = 0 THEN <<>> ELSE Append(PendingUpTo(n - 1), Packet(n, 0))

FlowSnapshots ==
    {NoSnapshot}
    \cup {[exists |-> TRUE, PendingPackets |-> PendingUpTo(n), TotalProcessed |-> n] :
             n \in {1, PacketChannelBuffer + 1} \cap FlowIds}

\* recoverFromState: the ids of the packets whose non-blocking send took "default"
RECURSIVE RecoverDropped(_, _)
RecoverDropped(ch, pending) ==
    IF pending = <<>> THEN {}
    ELSE IF Len(ch) < PacketChannelBuffer
         THEN RecoverDropped(Append(ch, Head(pending)), Tail(pending))
         ELSE {Head(pending).ID} \cup RecoverDropped(ch, Tail(pending))

\* a worker that dispatches whatever SelectAnalyzer returned
NoAnalyzerSelectedNever(sel) == FALSE

\* distributePacket: "if selectedAnalyzer == nil"
NoAnalyzerSelected(sel) == sel = Nil

\* the variables no step of SpecFlow changes
flowRest == <<originalWeights, hcTicks, lbCalls, nSel, selCount, ctxDone, closed, stopPc,
              panicked, ckpt, snapshot, submitting, submitBudget, submitVars, dlVars,
              persistVars, statsVars, retryVars, lockVars, snapVars, trackVars>>

\* Start on a new instance: recoverFromState tracks every pending packet and
\* enqueues those the queue has room for; then the go statements, every
\* goroutine reaching its select
FlowStart ==
    /\ ~StartRefused
    /\ lastCall.op = "none"
    /\ isRunning' = TRUE
    /\ lastCall' = Call("Start", "ok")
    /\ IF ~snapshot.exists
       THEN UNCHANGED <<packetMap, packetChannel, totalPacketsReceived, saturated, stranded>>
       ELSE /\ packetMap' = RecoverTracked(packetMap, snapshot.PendingPackets)
            /\ packetChannel' = RecoverQueue(packetChannel, snapshot.PendingPackets)
            /\ stranded' = RecoverDropped(packetChannel, snapshot.PendingPackets)
            /\ totalPacketsReceived' = snapshot.TotalProcessed
            /\ saturated' = (saturated \/ Len(packetChannel) + Len(snapshot.PendingPackets)
                                             > PacketChannelBuffer)
    /\ pw' = [w \in 1..PacketWorkers |-> [st |-> "select"]]
    /\ rw' = [w \in 1..PacketWorkers |-> "select"]
    /\ pump' = [st |-> "select"]
    /\ hc' = "run"
    /\ UNCHANGED <<flowRest, currentWeights, isHealthy, hcTodo, healthChanged, hcNotify,
                   lastSelected, lastSelectable, lastInHealthy, lastSmallest, resultChannel,
                   retryChannel, timers, tasks, deadLetter, submitResult, attempts, term,
                   anomaly, lastError, flowSubmits>>

\* SubmitPacket(packet), the whole call, for a valid packet with a fresh id:
\* TrackPacket, the counter, and the select (sent, or SubmissionTimeout with the
\* queue full and UntrackPacket)
FlowSubmitPacket ==
    \E id \in FlowIds :
        LET packet == Packet(id, 0) IN
        /\ isRunning
        /\ flowSubmits < MaxFlowSubmits
        /\ submitResult[id] = "none"
        /\ snapshot.exists => \A i \in DOMAIN snapshot.PendingPackets :
                                  snapshot.PendingPackets[i].ID # id
        /\ flowSubmits' = flowSubmits + 1
        /\ totalPacketsReceived' = totalPacketsReceived + 1
        /\ IF Len(packetChannel) < PacketChannelBuffer
           THEN /\ packetChannel' = Append(packetChannel, packet)
                /\ packetMap' = TrackPacket(packetMap, packet)
                /\ submitResult' = [submitResult EXCEPT ![id] = "ok"]
                /\ UNCHANGED saturated
           ELSE /\ packetMap' = UntrackPacket(TrackPacket(packetMap, packet), id)
                /\ submitResult' = [submitResult EXCEPT ![id] = "QueueFull"]
                /\ saturated' = TRUE
                /\ UNCHANGED packetChannel
        /\ UNCHANGED <<flowRest, currentWeights, isHealthy, hcTodo, healthChanged, hcNotify,
                       lastSelected, lastSelectable, lastInHealthy, lastSmallest, isRunning,
                       resultChannel, retryChannel, timers, tasks, pw, rw, pump, hc,
                       deadLetter, attempts, term, anomaly, lastError, lastCall, stranded>>

\* processPackets: "case packet := <-d.packetChannel" and distributePacket:
\* with no analyzer selected the worker goes into requeuePacketWithDelay, and
\* else starts the sendToAnalyzer goroutine
FlowReceive(w) ==
    \E sel \in Analyzers \cup {Nil} :
        LET packet == Head(packetChannel) IN
        /\ pw[w].st = "select"
        /\ packetChannel # <<>>
        /\ packetChannel' = Tail(packetChannel)
        /\ SelectAnalyzer(sel)
        /\ IF NoAnalyzerSelected(sel)
           THEN /\ pw' = [pw EXCEPT ![w] = [st |-> "requeue", packet |-> packet]]
                /\ UNCHANGED <<tasks, attempts, anomaly>>
           ELSE /\ tasks' = tasks (+) SetToBag({Task(packet, sel)})
                /\ attempts' = [attempts EXCEPT ![packet.ID] = @ + 1]
                /\ anomaly' = IF term[packet.ID] = "none" THEN anomaly
                              ELSE [anomaly EXCEPT ![packet.ID] = TRUE]
                /\ UNCHANGED pw
        /\ UNCHANGED <<flowRest, isHealthy, hcTodo, healthChanged, hcNotify, isRunning,
                       resultChannel, retryChannel, packetMap, timers, saturated, rw, pump,
                       hc, deadLetter, totalPacketsReceived, submitResult, term, lastError,
                       lastCall, flowVars>>

InitFlow ==
    /\ InitBalancer(TestRegistry, [a \in DOMAIN TestRegistry |-> TRUE])
    /\ isRunning = FALSE
    /\ ctxDone = FALSE
    /\ closed = FALSE
    /\ stopPc = "idle"
    /\ panicked = NoPanic
    /\ packetChannel = <<>>
    /\ resultChannel = <<>>
    /\ retryChannel = <<>>
    /\ packetMap = <<>>
    /\ timers = EmptyBag
    /\ tasks = EmptyBag
    /\ saturated = FALSE
    /\ pw = [w \in 1..PacketWorkers |-> [st |-> "off"]]
    /\ rw = [w \in 1..PacketWorkers |-> "off"]
    /\ pump = [st |-> "off"]
    /\ ckpt = "off"
    /\ hc = "off"
    /\ snapshot \in FlowSnapshots
    /\ deadLetter = <<>>
    /\ totalPacketsReceived = 0
    /\ submitting = {}
    /\ submitBudget = 0
    /\ submitResult = [id \in FlowIds |-> "none"]
    /\ attempts = [id \in FlowIds |-> 0]
    /\ term = [id \in FlowIds |-> "none"]
    /\ anomaly = [id \in FlowIds |-> FALSE]
    /\ lastError = [id \in FlowIds |-> ""]
    /\ lastCall = [op |-> "none", res |-> "none", seq |-> 0]
    /\ InitAux

NextFlow ==
    \/ FlowStart
    \/ FlowSubmitPacket
    \/ \E w \in 1..PacketWorkers : FlowReceive(w)
    \/ \E w \in 1..PacketWorkers : PWRequeueFire(w)
    \/ SendToAnalyzer
    \/ \E w \in 1..PacketWorkers : RWReceive(w)
    \/ TimerFire
    \/ PumpReceive \/ PumpResubmit
    \/ HCProbe \/ HCOnHealthChange

SpecFlow == InitFlow /\ [][NextFlow]_vars

\* The scheduler runs every runnable goroutine, timers fire and the health
\* ticker ticks for as long as the instance runs; SubmitPacket calls are not
\* forced.
FlowFairness ==
    /\ WF_vars(FlowStart)
    /\ \A w \in 1..PacketWorkers :
           WF_vars(FlowReceive(w)) /\ WF_vars(PWRequeueFire(w)) /\ WF_vars(RWReceive(w))
    /\ WF_vars(SendToAnalyzer)
    /\ WF_vars(TimerFire)
    /\ WF_vars(PumpReceive) /\ WF_vars(PumpResubmit)
    /\ WF_vars(HCProbe) /\ WF_vars(HCOnHealthChange)

FairFlow == SpecFlow /\ FlowFairness

\* ------------------------------------------------------------ claims on the running instance
\* the copies of a packet in the pipeline: in the packets queue, held by a
\* worker for requeueing, in a processing task, in the results queue, in a
\* retry timer, in the retries queue, held by the retry pump
BagCount(B, id) ==
    LET RECURSIVE Count(_)
        Count(S) == IF S = {} THEN 0
                    ELSE LET x == CHOOSE y \in S : TRUE
                         IN  (IF x.ID = id THEN CopiesIn(x, B) ELSE 0) + Count(S \ {x})
    IN  Count(BagToSet(B))

LiveCopies(id) ==
    Cardinality({i \in DOMAIN packetChannel : packetChannel[i].ID = id})
    + Cardinality({w \in DOMAIN pw : pw[w].st = "requeue" /\ pw[w].packet.ID = id})
    + BagCount(tasks, id)
    + ResultsFor(id)
    + BagCount(timers, id)
    + Cardinality({i \in DOMAIN retryChannel : retryChannel[i].ID = id})
    + (IF pump.st = "resubmit" /\ pump.packet.ID = id THEN 1 ELSE 0)

C33_DroppedRetryStaysTracked ==
    [][/\ \A p \in BagToSet(timers) :
              (CopiesIn(p, timers') < CopiesIn(p, timers)
                  /\ Len(retryChannel) >= RetryChannelBuffer) =>
                  /\ retryChannel' = retryChannel
                  /\ p.ID \in DOMAIN packetMap'
                  /\ packetMap'[p.ID] = p
                  /\ p.RetryCount >= 1
                  /\ UNCHANGED <<packetMap, deadLetter, packetChannel>>
       /\ (pump.st = "resubmit" /\ pump'.st = "select"
              /\ Len(packetChannel) >= PacketChannelBuffer) =>
              /\ packetChannel' = packetChannel
              /\ pump.packet.ID \in DOMAIN packetMap'
              /\ packetMap'[pump.packet.ID] = pump.packet
              /\ pump.packet.RetryCount >= 1
              /\ UNCHANGED <<packetMap, deadLetter, retryChannel>>]_vars

\* a packet failed, and the timer found the retries queue still holding the
\* other packet, or the pump found the packets queue full: it is tracked with
\* the incremented retry_count, no copy of it is left, and the dead-letter
\* store is empty
C33_Witness ==
    /\ deadLetter = <<>>
    /\ \E id \in FlowIds :
           /\ id \in DOMAIN packetMap
           /\ packetMap[id].RetryCount >= 1
           /\ attempts[id] = packetMap[id].RetryCount
           /\ LiveCopies(id) = 0
           /\ \/ Len(retryChannel) >= RetryChannelBuffer
              \/ Len(packetChannel) >= PacketChannelBuffer

\* C34: a recovered pending packet that Start could not enqueue because the
\* packets queue was full stays tracked, and a later retry or health event of
\* the running instance eventually dispatches it to an analyzer.
C34_StrandedEventuallyDispatched ==
    \A id \in FlowIds :
        /\ [](id \in stranded => (id \in DOMAIN packetMap \/ attempts[id] > 0))
        /\ (id \in stranded) ~> (attempts[id] > 0)

\* ------------------------------------------------------------ getState next to the pipeline
\* what a point-in-time view would show: the in-flight map, the counter, and
\* the counters of d.analyzers (written by recoverFromState only)
Instant == [pending |-> packetMap, counter |-> totalPacketsReceived, processed |-> dProcessed]

\* the states the distributor goes through while a snapshot is composed
Composing(pc) == pc \in {"locked", "tracked", "composed", "saved"}

NoteInstant ==
    snapSeen' = IF Composing(snapPc) /\ snapPc # "saved"
                THEN snapSeen \cup {Instant'}
                ELSE snapSeen

\* the variables no step of SpecSnap changes
snapRest == <<lbVars, isRunning, ctxDone, closed, stopPc, panicked, resultChannel,
              retryChannel, tasks, pw, rw, pump, ckpt, hc, submitting, submitBudget, lastCall,
              submitVars, dlVars, persistVars, statsVars, retryVars, lockVars, flowVars,
              trackVars>>

\* SubmitPacket: d.retryHandler.TrackPacket(packet)
SnapSubmitTrack(id) ==
    /\ isRunning
    /\ id \notin DOMAIN subPc
    /\ subPc' = subPc @@ (id :> "tracked")
    /\ packetMap' = TrackPacket(packetMap, Packet(id, 0))
    /\ UNCHANGED <<snapRest, packetChannel, timers, saturated, snapshot, deadLetter,
                   totalPacketsReceived, submitResult, attempts, term, anomaly, lastError,
                   snapPc, snapDraft, snapCalls>>
    /\ NoteInstant

\* SubmitPacket: atomic.AddInt64(&d.totalPacketsReceived, 1)
SnapSubmitCount(id) ==
    /\ id \in DOMAIN subPc
    /\ subPc[id] = "tracked"
    /\ subPc' = [subPc EXCEPT ![id] = "counted"]
    /\ totalPacketsReceived' = totalPacketsReceived + 1
    /\ UNCHANGED <<snapRest, packetChannel, packetMap, timers, saturated, snapshot,
                   deadLetter, submitResult, attempts, term, anomaly, lastError, snapPc,
                   snapDraft, snapCalls>>
    /\ NoteInstant

\* SubmitPacket: the select (sent, or SubmissionTimeout with the queue full and
\* UntrackPacket)
SnapSubmitSelect(id) ==
    /\ id \in DOMAIN subPc
    /\ subPc[id] = "counted"
    /\ subPc' = [subPc EXCEPT ![id] = "done"]
    /\ IF Len(packetChannel) < PacketChannelBuffer
       THEN /\ packetChannel' = Append(packetChannel, Packet(id, 0))
            /\ submitResult' = [submitResult EXCEPT ![id] = "ok"]
            /\ UNCHANGED <<packetMap, saturated>>
       ELSE /\ packetMap' = UntrackPacket(packetMap, id)
            /\ submitResult' = [submitResult EXCEPT ![id] = "QueueFull"]
            /\ saturated' = TRUE
            /\ UNCHANGED packetChannel
    /\ UNCHANGED <<snapRest, timers, snapshot, deadLetter, totalPacketsReceived, attempts,
                   term, anomaly, lastError, snapPc, snapDraft, snapCalls>>
    /\ NoteInstant

\* the pipeline's effect on the in-flight map: the packet at the head of the
\* queue is dispatched and its result handled, UntrackPacket on success and
\* HandleFailedPacket on failure
SnapProcessResult ==
    \E success \in BOOLEAN :
        LET packet == Head(packetChannel) IN
        /\ packetChannel # <<>>
        /\ packetChannel' = Tail(packetChannel)
        /\ attempts' = [attempts EXCEPT ![packet.ID] = @ + 1]
        /\ IF success
           THEN /\ packetMap' = UntrackPacket(packetMap, packet.ID)
                /\ NoteTerminal(packet.ID, "success")
                /\ UNCHANGED <<timers, deadLetter, lastError>>
           ELSE HandleFailedPacket(AnalysisResult(packet.ID, 1, FALSE, ErrSimulated))
        /\ UNCHANGED <<snapRest, saturated, snapshot, totalPacketsReceived, submitResult,
                       snapPc, snapDraft, snapCalls, subPc>>
        /\ NoteInstant

\* getState, called by the checkpointer's tick or by Stop: d.mu.RLock()
SnapGetState ==
    /\ isRunning
    /\ snapPc \in {"idle", "saved"}
    /\ snapCalls < MaxSnapshots
    /\ snapCalls' = snapCalls + 1
    /\ snapPc' = "locked"
    /\ snapDraft' = NoDraft
    /\ snapSeen' = {Instant}
    /\ UNCHANGED <<snapRest, packetChannel, packetMap, timers, saturated, snapshot,
                   deadLetter, totalPacketsReceived, submitResult, attempts, term, anomaly,
                   lastError, subPc>>

\* getState: d.retryHandler.GetTrackedPackets(), a copy made under r.mu
SnapReadTracked ==
    /\ snapPc = "locked"
    /\ snapPc' = "tracked"
    /\ snapDraft' = [snapDraft EXCEPT !.pending = packetMap]
    /\ UNCHANGED <<snapRest, packetChannel, packetMap, timers, saturated, snapshot,
                   deadLetter, totalPacketsReceived, submitResult, attempts, term, anomaly,
                   lastError, snapSeen, snapCalls, subPc>>

\* getState: TotalProcessed: d.getTotalPacketsReceived(), an atomic load
SnapReadCounter ==
    /\ snapPc = "tracked"
    /\ snapPc' = "composed"
    /\ snapDraft' = [snapDraft EXCEPT !.counter = totalPacketsReceived]
    /\ UNCHANGED <<snapRest, packetChannel, packetMap, timers, saturated, snapshot,
                   deadLetter, totalPacketsReceived, submitResult, attempts, term, anomaly,
                   lastError, snapSeen, snapCalls, subPc>>

\* SaveState: json.Marshal reads the counters through state.Analyzers, the
\* pointers of d.analyzers, and the file is written
SnapSaveState ==
    /\ snapPc = "composed"
    /\ snapPc' = "saved"
    /\ snapDraft' = [snapDraft EXCEPT !.processed = dProcessed]
    /\ snapshot' \in {[exists |-> TRUE, PendingPackets |-> pending,
                       TotalProcessed |-> snapDraft.counter] :
                         pending \in Orderings({snapDraft.pending[id] :
                                                   id \in DOMAIN snapDraft.pending})}
    /\ UNCHANGED <<snapRest, packetChannel, packetMap, timers, saturated, deadLetter,
                   totalPacketsReceived, submitResult, attempts, term, anomaly, lastError,
                   snapSeen, snapCalls, subPc>>

InitSnap ==
    /\ InitBalancer(TestRegistry, [a \in DOMAIN TestRegistry |-> TRUE])
    /\ InitPipelineFor(FlowIds, 0)
    /\ InitAux

SnapStart ==
    /\ ~snapshot.exists
    /\ FlowStart

NextSnap ==
    \/ SnapStart
    \/ \E id \in FlowIds : SnapSubmitTrack(id)
    \/ \E id \in FlowIds : SnapSubmitCount(id)
    \/ \E id \in FlowIds : SnapSubmitSelect(id)
    \/ SnapProcessResult
    \/ SnapGetState
    \/ SnapReadTracked
    \/ SnapReadCounter
    \/ SnapSaveState

SpecSnap == InitSnap /\ [][NextSnap]_vars

\* ------------------------------------------------------------ claims on the snapshot
\* C35: every saved snapshot is a point-in-time view: at some instant between
\* the start of getState and the write of the file the in-flight map was the
\* snapshot's pending set, total_packets_received its counter and the analyzers'
\* counters the serialized ones, whatever submissions and results ran meanwhile.
C35_SnapshotIsPointInTime ==
    snapPc = "saved" => snapDraft \in snapSeen

\* ------------------------------------------------------------ the retry handler's map, called directly
\* packet_validator_test.go: Message: "test"
MessageText == "test"

\* what a caller writes into a message of the slice it was returned
EditedText == "edited"

\* the in-flight map as a reader sees it: every packet with the elements of the
\* backing array its Messages slice points to
TrackedView ==
    [id \in DOMAIN packetMap |-> [packetMap[id] EXCEPT !.Messages = trHeap[@]]]

\* the variables no step of SpecTrack changes
trackRest == <<lbVars, isRunning, ctxDone, closed, stopPc, panicked, packetChannel,
               resultChannel, retryChannel, timers, tasks, saturated, pw, rw, pump, ckpt, hc,
               snapshot, deadLetter, totalPacketsReceived, submitting, submitBudget,
               submitResult, attempts, term, anomaly, lastError, lastCall, submitVars, dlVars,
               persistVars, statsVars, retryVars, lockVars, flowVars, snapVars>>

NoteCall(op, id) ==
    /\ trCalls < MaxTrackCalls
    /\ trCalls' = trCalls + 1
    /\ trPrev' = [map |-> TrackedView, heap |-> trHeap]
    /\ trOp' = [op |-> op, id |-> id]

\* TrackPacket(packet) with a packet the caller has built: a LogPacket whose
\* Messages slice has a backing array of its own
TrackNew(id, n) ==
    /\ NoteCall("track", id)
    /\ trHeap' = Append(trHeap, <<MessageText>>)
    /\ packetMap' = TrackPacket(packetMap,
                                [ID |-> id, RetryCount |-> n, Messages |-> Len(trHeap) + 1])
    /\ UNCHANGED <<trackRest, trSlice>>

\* TrackPacket(packet) a second time with the packet already tracked
TrackAgain(id) ==
    /\ id \in DOMAIN packetMap
    /\ NoteCall("again", id)
    /\ packetMap' = TrackPacket(packetMap, packetMap[id])
    /\ UNCHANGED <<trackRest, trHeap, trSlice>>

\* UntrackPacket(packetID), the id tracked or not
UntrackCall(id) ==
    /\ NoteCall("untrack", id)
    /\ packetMap' = UntrackPacket(packetMap, id)
    /\ UNCHANGED <<trackRest, trHeap, trSlice>>

\* GetTrackedPackets: a new slice, each LogPacket appended by value in the
\* map's iteration order; a LogPacket's Messages field is a slice header, so the
\* copy points to the backing array the tracked packet points to
GetTrackedPackets ==
    /\ NoteCall("get", Nil)
    /\ trSlice' \in Orderings({packetMap[id] : id \in DOMAIN packetMap})
    /\ UNCHANGED <<trackRest, packetMap, trHeap>>

\* the caller writes a field of an element of the returned slice:
\* packets[i].RetryCount++
EditField(i) ==
    /\ i \in DOMAIN trSlice
    /\ NoteCall("edit", trSlice[i].ID)
    /\ trSlice' = [trSlice EXCEPT ![i].RetryCount = @ + 1]
    /\ UNCHANGED <<trackRest, packetMap, trHeap>>

\* the caller drops an element of the returned slice: packets = packets[1:]
EditSlice ==
    /\ trSlice # <<>>
    /\ NoteCall("edit", Head(trSlice).ID)
    /\ trSlice' = Tail(trSlice)
    /\ UNCHANGED <<trackRest, packetMap, trHeap>>

\* the caller writes a message of an element of the returned slice:
\* packets[i].Messages[0].Message = "edited"
EditMessage(i) ==
    /\ i \in DOMAIN trSlice
    /\ NoteCall("edit", trSlice[i].ID)
    /\ trHeap' = [trHeap EXCEPT ![trSlice[i].Messages] = <<EditedText>>]
    /\ UNCHANGED <<trackRest, packetMap, trSlice>>

InitTrack ==
    /\ InitBalancer(TestRegistry, [a \in DOMAIN TestRegistry |-> TRUE])
    /\ InitPipelineFor(FlowIds, 0)
    /\ InitAux

NextTrack ==
    \/ \E id \in FlowIds, n \in 0..1 : TrackNew(id, n)
    \/ \E id \in FlowIds : TrackAgain(id)
    \/ \E id \in FlowIds : UntrackCall(id)
    \/ GetTrackedPackets
    \/ \E i \in 1..MaxFlowPackets : EditField(i)
    \/ EditSlice
    \/ \E i \in 1..MaxFlowPackets : EditMessage(i)

SpecTrack == InitTrack /\ [][NextTrack]_vars

\* ------------------------------------------------------------ claims on the map's operations
\* tracking a packet leaves exactly one entry for its id, the packet tracked,
\* and no other entry changes; tracking the same packet again changes nothing
TrackOverwrites ==
    /\ trOp.op = "track" =>
          /\ DOMAIN packetMap = DOMAIN trPrev.map \cup {trOp.id}
          /\ TrackedView[trOp.id].Messages = <<MessageText>>
          /\ \A id \in DOMAIN trPrev.map \ {trOp.id} : TrackedView[id] = trPrev.map[id]
    /\ trOp.op = "again" => TrackedView = trPrev.map

\* UntrackPacket of an absent id changes nothing, and of a tracked id removes
\* that entry alone
UntrackDeletes ==
    trOp.op = "untrack" =>
        /\ DOMAIN packetMap = DOMAIN trPrev.map \ {trOp.id}
        /\ \A id \in DOMAIN packetMap : TrackedView[id] = trPrev.map[id]

\* Track of an id that is not tracked, followed by Untrack of it, gives the
\* key set back
TrackUntrackRestores ==
    \A id \in FlowIds \ DOMAIN packetMap :
        DOMAIN UntrackPacket(TrackPacket(packetMap, [ID |-> id, RetryCount |-> 0,
                                                     Messages |-> 0]), id)
            = DOMAIN packetMap

\* C36: TrackPacket is idempotent and overwriting, UntrackPacket of an absent
\* id changes nothing, Track then Untrack of an id restores the key set, and a
\* write to what GetTrackedPackets returned leaves the in-flight map as it was.
C36_TrackUntrackAndCopy ==
    /\ TrackOverwrites
    /\ UntrackDeletes
    /\ TrackUntrackRestores
    /\ trOp.op = "edit" => TrackedView = trPrev.map


\* C37: in one running instance there is at most one live copy of each packet
\* id across the queues, workers, timers, tasks and the pump, and an id that is
\* not in the in-flight map has none.
C37_AtMostOneLiveCopy ==
    \A id \in FlowIds :
        /\ LiveCopies(id) <= 1
        /\ id \notin DOMAIN packetMap => LiveCopies(id) = 0

\* C37 witness: the two packets have their one live copy at different stages,
\* one waiting on its retry timer and one back in the packets queue after a
\* retry
C37_Witness ==
    /\ \E id \in FlowIds : BagCount(timers, id) = 1 /\ LiveCopies(id) = 1
    /\ \E id \in FlowIds :
          /\ \E i \in DOMAIN packetChannel : packetChannel[i].ID = id
          /\ packetMap[id].RetryCount >= 1
          /\ LiveCopies(id) = 1


\* ------------------------------------------------------------ claims on Start after Stop
\* a step that is a Start call going through (isRunning set)
StartStep == ~isRunning /\ isRunning'

\* C38: over any sequence of Start and Stop calls on one instance no queue is
\* closed a second time, and a Start that goes through neither sends a
\* recovered packet on a closed queue nor starts its workers on a cancelled
\* context.
C38_RestartIsClean ==
    [][/\ panicked' # panicked => panicked' # CloseOfClosed
       /\ StartStep => /\ panicked' # SendOnClosed
                       /\ ~ctxDone']_vars


\* ------------------------------------------------------------ claims on the snapshot Stop writes
\* a step on which a Stop call returns: wg.Wait() is over and the queues are
\* closed
StopReturns == stopPc = "wait" /\ stopPc' = "idle" /\ panicked' = NoPanic

\* the ids of the pending packets of the state file
PendingIds == {snapshot.PendingPackets[i].ID : i \in DOMAIN snapshot.PendingPackets}

\* C39: when Stop returns, every packet SubmitPacket has accepted and that has
\* neither succeeded nor been dead-lettered is among the pending packets of the
\* snapshot, also when SubmitPacket runs while Stop does.
C39_AcceptedPacketsInFinalSnapshot ==
    [][StopReturns =>
          \A id \in PacketIds :
              (submitResult'[id] = "ok" /\ term'[id] = "none") => id \in PendingIds']_vars

\* C40: when Stop returns, no pending packet of the snapshot is in the
\* dead-letter file, and each one's retry_count in the snapshot is its
\* retry_count in the in-flight map.
C40_FinalSnapshotMatchesOutcome ==
    [][StopReturns =>
          \A i \in DOMAIN snapshot'.PendingPackets :
              LET packet == snapshot'.PendingPackets[i] IN
              /\ \A j \in DOMAIN deadLetter' : deadLetter'[j].Packet.ID # packet.ID
              /\ packet.ID \in DOMAIN packetMap' =>
                     packetMap'[packet.ID].RetryCount = packet.RetryCount]_vars

====
